---- MODULE Spec2Model ----
(***************************************************************************)
(* mqtt2irc: the bridge between an MQTT subscription and IRC channels.     *)
(* The model covers the bounded queue between the MQTT callback and the    *)
(* bridge worker, the worker's per-message routing (mapper, processor,     *)
(* formatter, send) and the Run / Shutdown lifecycle.                      *)
(*                                                                         *)
(* Text is a sequence of code points (47 = '/', 43 = '+', 35 = '#',         *)
(* 32 = ' ', 10 = LF, 91 = '[', 93 = ']', 97.. = 'a'..).                   *)
(***************************************************************************)
EXTENDS Integers, Sequences, FiniteSets, TLC

(***************************************************************************)
(* Bounds of the model.                                                    *)
(***************************************************************************)
\* messages the MQTT broker delivers in one run
MaxMsgs == 3
\* receives the worker makes on the closed, empty channel
MaxZero == 1

(***************************************************************************)
(* Configuration (config.BridgeConfig) the bridge is started with.         *)
(***************************************************************************)
\* bridge.queue.max_size: capacity of msgQueue
MaxSize == 1
\* bridge.max_message_length
MaxMessageLength == 8
\* bridge.truncate_suffix: "~"
TruncateSuffix == <<126>>

\* message_format "" : the formatter substitutes "[{{.Topic}}] {{.Payload}}"
EmptyTemplate == <<>>
\* message_format "t:{{.Payload}}"
PayloadTemplate == << [lit |-> <<116, 58>>], [field |-> "Payload"] >>

\* bridge.mappings: routes 1 and 2 share the pattern "a/#"; only route 1
\* declares a processor.  Route 3 is "a/+" without a processor.  Routes 4
\* and 5 share the pattern "m/#" and both declare the meshtastic processor.
Mappings ==
  << [MQTTTopic |-> <<97, 47, 35>>, IRCChannels |-> <<"#x", "#y">>,
      MessageFormat |-> PayloadTemplate, Processor |-> "meshtastic"],
     [MQTTTopic |-> <<97, 47, 35>>, IRCChannels |-> <<"#z">>,
      MessageFormat |-> EmptyTemplate, Processor |-> ""],
     [MQTTTopic |-> <<97, 47, 43>>, IRCChannels |-> <<"#w">>,
      MessageFormat |-> EmptyTemplate, Processor |-> ""],
     [MQTTTopic |-> <<109, 47, 35>>, IRCChannels |-> <<"#u">>,
      MessageFormat |-> EmptyTemplate, Processor |-> "meshtastic"],
     [MQTTTopic |-> <<109, 47, 35>>, IRCChannels |-> <<"#v">>,
      MessageFormat |-> EmptyTemplate, Processor |-> "meshtastic"] >>

(***************************************************************************)
(* irc/formatter: sanitize, truncate, FormatMessage.                       *)
(***************************************************************************)
\* unicode.IsSpace, as strings.Fields uses it
IsSpace(r) == r \in {9, 10, 11, 12, 13, 32, 133, 160}

\* the rune loop of sanitize: what is written for rune r
sanitizeRune(r) ==
  IF (r >= 32 /\ r < 127) \/ r = 2 \/ r = 31 \/ r = 22 \/ r = 3 THEN r
  ELSE IF r >= 128 THEN r
  ELSE 32

RECURSIVE Fields(_, _, _)
\* strings.Fields: the maximal runs of non-space runes of s
Fields(s, cur, acc) ==
  IF s = <<>> THEN (IF cur = <<>> THEN acc ELSE Append(acc, cur))
  ELSE IF IsSpace(Head(s))
       THEN Fields(Tail(s), <<>>, IF cur = <<>> THEN acc ELSE Append(acc, cur))
       ELSE Fields(Tail(s), Append(cur, Head(s)), acc)

RECURSIVE Join(_, _)
\* strings.Join
Join(words, sep) ==
  IF words = <<>> THEN <<>>
  ELSE IF Len(words) = 1 THEN words[1]
  ELSE words[1] \o sep \o Join(Tail(words), sep)

sanitize(s) ==
  LET replaced == [i \in 1..Len(s) |-> sanitizeRune(s[i])]
  IN  Join(Fields(replaced, <<>>, <<>>), <<32>>)

\* truncate that reserves no room for the suffix
truncateNoReserve(s, maxLength, suffix) ==
  LET max == IF maxLength <= 0 THEN 400 ELSE maxLength
  IN  IF Len(s) <= max THEN s ELSE SubSeq(s, 1, max) \o suffix

truncate(s, maxLength, suffix) ==
  LET max == IF maxLength <= 0 THEN 400 ELSE maxLength
      targetLen == max - Len(suffix)
  IN  IF Len(s) <= max THEN s
      ELSE IF targetLen <= 0 THEN suffix
      ELSE SubSeq(s, 1, targetLen) \o suffix

SanitizeAndTruncate(s, maxLen, suffix) == truncate(sanitize(s), maxLen, suffix)

\* utf8.Valid on the payload bytes: the model's payloads are ASCII bytes or
\* the byte 255, which no UTF-8 sequence contains
utf8Valid(payload) == \A i \in 1..Len(payload) : payload[i] < 128

RECURSIVE Digits(_)
\* %d of a natural number
Digits(n) == IF n < 10 THEN <<48 + n>> ELSE Digits(n \div 10) \o <<48 + (n % 10)>>

\* "[binary data, N bytes]" for a payload that is not valid UTF-8
payloadString(payload) ==
  IF ~utf8Valid(payload)
  THEN <<91, 98, 105, 110, 97, 114, 121, 32, 100, 97, 116, 97, 44, 32>>
       \o Digits(Len(payload)) \o <<32, 98, 121, 116, 101, 115, 93>>
  ELSE payload

formatSimple(msg, maxLength, truncateSuffix) ==
  truncate(sanitize(<<91>> \o msg.Topic \o <<93, 32>> \o payloadString(msg.Payload)),
           maxLength, truncateSuffix)

RECURSIVE Execute(_, _)
\* tmpl.Execute: literal text is copied, a field is replaced by its value
Execute(tmpl, msg) ==
  IF tmpl = <<>> THEN <<>>
  ELSE LET t == Head(tmpl)
           piece == IF "lit" \in DOMAIN t THEN t.lit
                    ELSE IF t.field = "Topic" THEN msg.Topic
                    ELSE payloadString(msg.Payload)
       IN  piece \o Execute(Tail(tmpl), msg)

\* template.Parse fails on a template with a malformed action
ParseFails(templateStr) ==
  \E i \in 1..Len(templateStr) : "malformed" \in DOMAIN templateStr[i]

\* FormatMessage whose default template is "{{.Topic}} {{.Payload}}"
FormatMessageNoBrackets(msg, templateStr, maxLength, truncateSuffix) ==
  LET tmpl == IF templateStr = <<>>
              THEN << [field |-> "Topic"], [lit |-> <<32>>], [field |-> "Payload"] >>
              ELSE templateStr
  IN  IF ParseFails(tmpl) THEN formatSimple(msg, maxLength, truncateSuffix)
      ELSE truncate(sanitize(Execute(tmpl, msg)), maxLength, truncateSuffix)

FormatMessage(msg, templateStr, maxLength, truncateSuffix) ==
  LET tmpl == IF templateStr = <<>>
              THEN << [lit |-> <<91>>], [field |-> "Topic"],
                      [lit |-> <<93, 32>>], [field |-> "Payload"] >>
              ELSE templateStr
  IN  IF ParseFails(tmpl) THEN formatSimple(msg, maxLength, truncateSuffix)
      ELSE truncate(sanitize(Execute(tmpl, msg)), maxLength, truncateSuffix)

(***************************************************************************)
(* bridge/mapper: matchTopic, Map.                                         *)
(***************************************************************************)
RECURSIVE Split(_, _, _)
\* strings.Split(s, "/")
Split(s, cur, acc) ==
  IF s = <<>> THEN Append(acc, cur)
  ELSE IF Head(s) = 47 THEN Split(Tail(s), <<>>, Append(acc, cur))
  ELSE Split(Tail(s), Append(cur, Head(s)), acc)

Contains(s, c) == \E i \in 1..Len(s) : s[i] = c

RECURSIVE matchPartsPlusOptional(_, _)
\* matchParts whose "+" also matches no level at all
matchPartsPlusOptional(topicParts, patternParts) ==
  IF Len(patternParts) = 0 THEN Len(topicParts) = 0
  ELSE IF patternParts[1] = <<35>> THEN Len(patternParts) = 1
  ELSE IF patternParts[1] = <<43>>
       THEN \/ matchPartsPlusOptional(topicParts, Tail(patternParts))
            \/ /\ Len(topicParts) > 0
               /\ matchPartsPlusOptional(Tail(topicParts), Tail(patternParts))
  ELSE IF Len(topicParts) = 0 THEN FALSE
  ELSE IF topicParts[1] = patternParts[1]
       THEN matchPartsPlusOptional(Tail(topicParts), Tail(patternParts))
  ELSE FALSE

RECURSIVE matchPartsHashNeedsLevel(_, _)
\* matchParts whose "#" needs at least one remaining level
matchPartsHashNeedsLevel(topicParts, patternParts) ==
  IF Len(patternParts) = 0 THEN Len(topicParts) = 0
  ELSE IF patternParts[1] = <<35>> THEN Len(patternParts) = 1 /\ Len(topicParts) > 0
  ELSE IF Len(topicParts) = 0 THEN FALSE
  ELSE IF patternParts[1] = <<43>>
       THEN matchPartsHashNeedsLevel(Tail(topicParts), Tail(patternParts))
  ELSE IF topicParts[1] = patternParts[1]
       THEN matchPartsHashNeedsLevel(Tail(topicParts), Tail(patternParts))
  ELSE FALSE

RECURSIVE matchParts(_, _)
matchParts(topicParts, patternParts) ==
  IF Len(patternParts) = 0 THEN Len(topicParts) = 0
  ELSE IF patternParts[1] = <<35>> THEN Len(patternParts) = 1
  ELSE IF Len(topicParts) = 0 THEN FALSE
  ELSE IF patternParts[1] = <<43>> THEN matchParts(Tail(topicParts), Tail(patternParts))
  ELSE IF topicParts[1] = patternParts[1] THEN matchParts(Tail(topicParts), Tail(patternParts))
  ELSE FALSE

\* matchTopic without the "topic == pattern" test
matchTopicNoExact(topic, pattern) ==
  IF ~Contains(pattern, 43) /\ ~Contains(pattern, 35) THEN FALSE
  ELSE matchParts(Split(topic, <<>>, <<>>), Split(pattern, <<>>, <<>>))

matchTopic(topic, pattern) ==
  IF topic = pattern THEN TRUE
  ELSE IF ~Contains(pattern, 43) /\ ~Contains(pattern, 35) THEN FALSE
  ELSE matchParts(Split(topic, <<>>, <<>>), Split(pattern, <<>>, <<>>))

\* strings.Contains(s, substr) for a non-empty substr
ContainsStr(s, substr) ==
  \E i \in 1..(Len(s) - Len(substr) + 1) : SubSeq(s, i, i + Len(substr) - 1) = substr

RECURSIVE validParts(_, _, _)
\* "for i, part := range parts" of IsValidPattern from part i on
validParts(parts, i, hashSeen) ==
  IF i > Len(parts) THEN TRUE
  ELSE IF parts[i] = <<>> THEN FALSE
  ELSE IF parts[i] = <<35>> /\ i # Len(parts) THEN FALSE
  ELSE IF (hashSeen \/ parts[i] = <<35>>) /\ i # Len(parts) THEN FALSE
  ELSE IF Contains(parts[i], 43) /\ parts[i] # <<43>> THEN FALSE
  ELSE IF Contains(parts[i], 35) /\ parts[i] # <<35>> THEN FALSE
  ELSE validParts(parts, i + 1, hashSeen \/ parts[i] = <<35>>)

\* IsValidPattern without the test for ".."
IsValidPatternNoDots(pattern) ==
  IF pattern = <<>> THEN FALSE
  ELSE validParts(Split(pattern, <<>>, <<>>), 1, FALSE)

\* IsValidPattern
IsValidPattern(pattern) ==
  IF pattern = <<>> THEN FALSE
  ELSE IF ContainsStr(pattern, <<46, 46>>) THEN FALSE
  ELSE validParts(Split(pattern, <<>>, <<>>), 1, FALSE)

RECURSIVE MapFromFirstMatch(_, _, _)
\* a loop that ends at the first matching mapping
MapFromFirstMatch(mappings, topic, i) ==
  IF i > Len(mappings) THEN <<>>
  ELSE IF matchTopic(topic, mappings[i].MQTTTopic) THEN <<i>>
  ELSE MapFromFirstMatch(mappings, topic, i + 1)

RECURSIVE MapFrom(_, _, _)
\* the loop of Map over m.mappings from mapping i on: the indexes of the
\* matching mappings, each appended to the results as the loop reaches it
MapFrom(mappings, topic, i) ==
  IF i > Len(mappings) THEN <<>>
  ELSE (IF matchTopic(topic, mappings[i].MQTTTopic) THEN <<i>> ELSE <<>>)
       \o MapFrom(mappings, topic, i + 1)

\* a Map that returns every mapping, whatever the topic
MapEveryMapping(topic) == [j \in 1..Len(Mappings) |-> j]

\* Mapper.Map: the matching mappings, in configuration order
Map(topic) == MapFrom(Mappings, topic, 1)

(***************************************************************************)
(* bridge/processor: the Processor interface and the processors map.       *)
(***************************************************************************)
\* pre-formatted text a processor hands back: "p\n qqqqqqq"
RawFormatted == <<112, 10, 32, 113, 113, 113, 113, 113, 113, 113>>

\* what Process may return: any ProcessResult, with or without an error
ProcessResults ==
  [Drop : BOOLEAN, Formatted : {<<>>, RawFormatted}, err : BOOLEAN]

\* the result of a route on which no processor ran
NoResult == [Drop |-> FALSE, Formatted |-> <<>>, err |-> FALSE]

\* the patterns New stores a processor under
ProcessorKeys ==
  {Mappings[i].MQTTTopic : i \in {j \in 1..Len(Mappings) : Mappings[j].Processor # ""}}

\* b.processors as New builds it: pattern -> the processor instance created
\* for the last mapping that has this pattern and declares a processor
processors ==
  [p \in ProcessorKeys |->
     CHOOSE i \in 1..Len(Mappings) :
        /\ Mappings[i].MQTTTopic = p /\ Mappings[i].Processor # ""
        /\ \A j \in (i + 1)..Len(Mappings) :
              ~(Mappings[j].MQTTTopic = p /\ Mappings[j].Processor # "")]

\* handleMessage, "if proc, ok := b.processors[mapping.MQTTTopic]; ok"
hasProcessor(r) == Mappings[r].MQTTTopic \in DOMAIN processors

\* dispatch with a processor error treated as a drop
dispatchDropOnError(ran, result) ==
  IF ran /\ (result.Drop \/ result.err) THEN "skip"
  ELSE IF ran /\ result.Formatted # <<>> THEN "direct"
  ELSE "format"

\* dispatch without the "if result.Drop { continue }" branch
dispatchIgnoreDrop(ran, result) ==
  IF ran /\ result.Formatted # <<>> THEN "direct"
  ELSE "format"

\* dispatch that looks at Formatted before Drop
dispatchFormattedFirst(ran, result) ==
  IF ran /\ result.Formatted # <<>> THEN "direct"
  ELSE IF ran /\ result.Drop THEN "skip"
  ELSE "format"

\* handleMessage's decision for one route after the processor step:
\* "skip" (continue), "direct" (send Formatted) or "format" (FormatMessage)
dispatch(ran, result) ==
  IF ran /\ result.Drop THEN "skip"
  ELSE IF ran /\ result.Formatted # <<>> THEN "direct"
  ELSE "format"

\* the pre-formatted text sent as the processor returned it
directTextRaw(result) == result.Formatted

\* the text handleMessage sends on the pre-formatted path
directText(result) ==
  SanitizeAndTruncate(result.Formatted, MaxMessageLength, TruncateSuffix)

(***************************************************************************)
(* processors/meshtastic: dedupCache, nodeRegistry and Process.            *)
(***************************************************************************)
\* instants the clock of the model runs through: 0..MaxTime
MaxTime == 3
\* messages one run of the processor specifications handles
MaxMeshMsgs == 3

\* dedup_window of the processor configuration, in clock ticks
DedupWindow == 2

\* {"id":7,"from":1}
PayloadId7 ==
  <<123, 34, 105, 100, 34, 58, 55, 44, 34, 102, 114, 111, 109, 34, 58, 49,
     125>>

\* {"id":"7","from":1}
PayloadIdStr7 ==
  <<123, 34, 105, 100, 34, 58, 34, 55, 34, 44, 34, 102, 114, 111, 109, 34,
     58, 49, 125>>

\* {"from":1}
PayloadNoId ==
  <<123, 34, 102, 114, 111, 109, 34, 58, 49, 125>>

\* {"id":null,"from":1}
PayloadNullId ==
  <<123, 34, 105, 100, 34, 58, 110, 117, 108, 108, 44, 34, 102, 114, 111,
     109, 34, 58, 49, 125>>

\* {"id":8,"type":"nodeinfo","from":1,"payload":{"shortname":"A","longname":"L"}}
PayloadNodeinfo ==
  <<123, 34, 105, 100, 34, 58, 56, 44, 34, 116, 121, 112, 101, 34, 58, 34,
     110, 111, 100, 101, 105, 110, 102, 111, 34, 44, 34, 102, 114, 111,
     109, 34, 58, 49, 44, 34, 112, 97, 121, 108, 111, 97, 100, 34, 58,
     123, 34, 115, 104, 111, 114, 116, 110, 97, 109, 101, 34, 58, 34, 65,
     34, 44, 34, 108, 111, 110, 103, 110, 97, 109, 101, 34, 58, 34, 76,
     34, 125, 125>>

\* {"from":1,"sender":"!a"}
PayloadSender ==
  <<123, 34, 102, 114, 111, 109, 34, 58, 49, 44, 34, 115, 101, 110, 100,
     101, 114, 34, 58, 34, 33, 97, 34, 125>>

\* {"type":"nodeinfo","from":1,"payload":{"shortname":"","longname":"L"}}
PayloadNodeinfoEmpty ==
  <<123, 34, 116, 121, 112, 101, 34, 58, 34, 110, 111, 100, 101, 105,
     110, 102, 111, 34, 44, 34, 102, 114, 111, 109, 34, 58, 49, 44, 34,
     112, 97, 121, 108, 111, 97, 100, 34, 58, 123, 34, 115, 104, 111,
     114, 116, 110, 97, 109, 101, 34, 58, 34, 34, 44, 34, 108, 111, 110,
     103, 110, 97, 109, 101, 34, 58, 34, 76, 34, 125, 125>>

\* {"id":8,"type":"nodeinfo","from":1,"payload":{"shortname":"B","longname":"M"}}
PayloadNodeinfoRenamed ==
  <<123, 34, 105, 100, 34, 58, 56, 44, 34, 116, 121, 112, 101, 34, 58,
     34, 110, 111, 100, 101, 105, 110, 102, 111, 34, 44, 34, 102, 114,
     111, 109, 34, 58, 49, 44, 34, 112, 97, 121, 108, 111, 97, 100, 34,
     58, 123, 34, 115, 104, 111, 114, 116, 110, 97, 109, 101, 34, 58, 34,
     66, 34, 44, 34, 108, 111, 110, 103, 110, 97, 109, 101, 34, 58, 34,
     77, 34, 125, 125>>

\* {"type":"nodeinfo","from":2,"payload":{"shortname":"C","longname":"N"}}
PayloadNodeinfoOther ==
  <<123, 34, 116, 121, 112, 101, 34, 58, 34, 110, 111, 100, 101, 105,
     110, 102, 111, 34, 44, 34, 102, 114, 111, 109, 34, 58, 50, 44, 34,
     112, 97, 121, 108, 111, 97, 100, 34, 58, 123, 34, 115, 104, 111,
     114, 116, 110, 97, 109, 101, 34, 58, 34, 67, 34, 44, 34, 108, 111,
     110, 103, 110, 97, 109, 101, 34, 58, 34, 78, 34, 125, 125>>

\* null
PayloadNull ==
  <<110, 117, 108, 108>>

\* [1]
PayloadArray ==
  <<91, 49, 93>>

\* hi
PayloadText ==
  <<104, 105>>

\* "nodeinfo"
NodeinfoType == <<110, 111, 100, 101, 105, 110, 102, 111>>

\* json.Unmarshal(msg.Payload, &raw) on the payloads above: the decoded
\* object, field name -> value, or a failure for text that is not an object;
\* the JSON value null is decoded without error and leaves raw a nil map
jsonUnmarshal(payload) ==
  CASE payload = PayloadId7 ->
         [ok |-> TRUE,
          raw |-> [id |-> [k |-> "num", n |-> 7], from |-> [k |-> "num", n |-> 1]]]
    [] payload = PayloadIdStr7 ->
         [ok |-> TRUE,
          raw |-> [id |-> [k |-> "str", s |-> <<55>>], from |-> [k |-> "num", n |-> 1]]]
    [] payload = PayloadNoId ->
         [ok |-> TRUE, raw |-> [from |-> [k |-> "num", n |-> 1]]]
    [] payload = PayloadNullId ->
         [ok |-> TRUE,
          raw |-> [id |-> [k |-> "null"], from |-> [k |-> "num", n |-> 1]]]
    [] payload = PayloadNodeinfo ->
         [ok |-> TRUE,
          raw |-> [id |-> [k |-> "num", n |-> 8],
                   type |-> [k |-> "str", s |-> NodeinfoType],
                   from |-> [k |-> "num", n |-> 1],
                   payload |-> [k |-> "obj",
                                o |-> [shortname |-> [k |-> "str", s |-> <<65>>],
                                       longname |-> [k |-> "str", s |-> <<76>>]]]]]
    [] payload = PayloadSender ->
         [ok |-> TRUE,
          raw |-> [from |-> [k |-> "num", n |-> 1],
                   sender |-> [k |-> "str", s |-> <<33, 97>>]]]
    [] payload = PayloadNodeinfoEmpty ->
         [ok |-> TRUE,
          raw |-> [type |-> [k |-> "str", s |-> NodeinfoType],
                   from |-> [k |-> "num", n |-> 1],
                   payload |-> [k |-> "obj",
                                o |-> [shortname |-> [k |-> "str", s |-> <<>>],
                                       longname |-> [k |-> "str", s |-> <<76>>]]]]]
    [] payload = PayloadNodeinfoRenamed ->
         [ok |-> TRUE,
          raw |-> [id |-> [k |-> "num", n |-> 8],
                   type |-> [k |-> "str", s |-> NodeinfoType],
                   from |-> [k |-> "num", n |-> 1],
                   payload |-> [k |-> "obj",
                                o |-> [shortname |-> [k |-> "str", s |-> <<66>>],
                                       longname |-> [k |-> "str", s |-> <<77>>]]]]]
    [] payload = PayloadNodeinfoOther ->
         [ok |-> TRUE,
          raw |-> [type |-> [k |-> "str", s |-> NodeinfoType],
                   from |-> [k |-> "num", n |-> 2],
                   payload |-> [k |-> "obj",
                                o |-> [shortname |-> [k |-> "str", s |-> <<67>>],
                                       longname |-> [k |-> "str", s |-> <<78>>]]]]]
    [] payload = PayloadNull -> [ok |-> TRUE, raw |-> <<>>]
    [] OTHER -> [ok |-> FALSE, raw |-> <<>>]

\* fmt.Sprintf("%v", v) of a decoded scalar: a small whole number prints
\* its digits, a string prints itself, nil prints "<nil>"
SprintfV(v) ==
  IF v.k = "num" THEN Digits(v.n)
  ELSE IF v.k = "str" THEN v.s
  ELSE <<60, 110, 105, 108, 62>>

\* stringify: whole numbers as integers, nil as ""
stringify(v) == IF v.k = "num" THEN Digits(v.n) ELSE IF v.k = "str" THEN v.s ELSE <<>>

\* a Go map with key k set to v
MapSet(m, k, v) == [x \in DOMAIN m \cup {k} |-> IF x = k THEN v ELSE m[x]]

\* eviction that deletes an entry from one tick before its expiry on
evictEarly(entries, now) ==
  [k \in {x \in DOMAIN entries : ~(now + 1 >= entries[x])} |-> entries[k]]

\* a seen without the eviction loop
evictNothing(entries, now) == entries

\* the loop of dedupCache.seen that deletes the entries with now.After(expiry)
evict(entries, now) ==
  [k \in {x \in DOMAIN entries : ~(now > entries[x])} |-> entries[k]]

\* the test of dedupCache.seen: "ok && now.Before(expiry)"
seenTest(entries, id, now) == id \in DOMAIN entries /\ now < entries[id]

\* dedupCache.seen under its mutex: evict, test, record
seen(entries, id, now) ==
  LET e1 == evict(entries, now)
  IN  IF seenTest(e1, id, now) THEN [entries |-> e1, ret |-> TRUE]
      ELSE [entries |-> MapSet(e1, id, now + DedupWindow), ret |-> FALSE]

\* flattenMeshtastic on objects whose "payload" holds scalars only: the
\* top-level scalars, then the fields of "payload" over them, "msgtype"
\* set and "type" deleted
flattenMeshtastic(raw, msgType) ==
  LET top == {k \in DOMAIN raw : raw[k].k # "obj"}
      pm == IF "payload" \in DOMAIN raw /\ raw["payload"].k = "obj"
            THEN raw["payload"].o ELSE <<>>
  IN  [k \in ((top \cup DOMAIN pm \cup {"msgtype"}) \ {"type"}) |->
         IF k = "msgtype" THEN msgType
         ELSE IF k \in DOMAIN pm THEN stringify(pm[k])
         ELSE stringify(raw[k])]

\* data[k].(string) with the zero value "" for a missing key
dataString(data, k) == IF k \in DOMAIN data THEN data[k] ELSE <<>>

\* smartFrom with the sender field tried before the registry
smartFromSenderFirst(nodes, data) ==
  LET fromStr == dataString(data, "from")
  IN  IF dataString(data, "sender") # <<>> THEN dataString(data, "sender")
      ELSE IF fromStr \in DOMAIN nodes /\ nodes[fromStr].ShortName # <<>>
      THEN nodes[fromStr].ShortName
      ELSE fromStr

\* smartFrom: registry short name, then the sender field, then from
smartFrom(nodes, data) ==
  LET fromStr == dataString(data, "from")
  IN  IF fromStr \in DOMAIN nodes /\ nodes[fromStr].ShortName # <<>>
      THEN nodes[fromStr].ShortName
      ELSE IF dataString(data, "sender") # <<>> THEN dataString(data, "sender")
      ELSE fromStr

\* formats of the processor configuration: "nodeinfo" is
\* "{{.smart_from}}={{.longname}}" and "default" is "{{.smart_from}}:"; like
\* the built-in formats, each has literal text
meshFormats ==
  [nodeinfo |-> << [field |-> "smart_from"], [lit |-> <<61>>], [field |-> "longname"] >>,
   default |-> << [field |-> "smart_from"], [lit |-> <<58>>] >>]

\* selectTemplate: the template of the type, else "default"
selectTemplate(msgType) ==
  IF msgType = NodeinfoType THEN meshFormats.nodeinfo ELSE meshFormats.default

\* what text/template prints for a key the data map lacks: "<no value>"
NoValue == <<60, 110, 111, 32, 118, 97, 108, 117, 101, 62>>

RECURSIVE meshExecute(_, _)
\* tmpl.Execute(&buf, data)
meshExecute(tmpl, data) ==
  IF tmpl = <<>> THEN <<>>
  ELSE (IF "lit" \in DOMAIN Head(tmpl) THEN Head(tmpl).lit
        ELSE IF Head(tmpl).field \in DOMAIN data THEN data[Head(tmpl).field]
        ELSE NoValue)
       \o meshExecute(Tail(tmpl), data)

\* an update that keeps the record a sender already has
updateKeepFirst(nodes, from, rec) ==
  IF from \in DOMAIN nodes THEN nodes ELSE MapSet(nodes, from, rec)

\* nodeRegistry.update on a registry without node_db: the map write (save
\* returns nil at once for an empty path)
update(nodes, from, rec) == MapSet(nodes, from, rec)

\* the identifier test without "id != nil"
hasIdNilToo(raw) == "id" \in DOMAIN raw

\* Process, "if id, ok := raw[p.idField]; ok && id != nil"
hasId(raw) == "id" \in DOMAIN raw /\ raw["id"].k # "null"

\* Process, the cache key of the identifier: fmt.Sprintf("%v", id)
idKey(raw) == IF hasId(raw) THEN SprintfV(raw["id"]) ELSE <<>>

\* Process, "if id ... p.cache.seen(key)": the cache after the call and whether
\* the message is a duplicate; a message without identifier skips the cache
dedup(cache, raw, now) ==
  IF hasId(raw) THEN seen(cache, idKey(raw), now)
  ELSE [entries |-> cache, ret |-> FALSE]

\* Process, "if t, ok := raw["type"]; ok && t != nil { msgType = ... }"
typeOf(raw) ==
  IF "type" \in DOMAIN raw /\ raw["type"].k # "null"
  THEN SprintfV(raw["type"]) ELSE <<>>

\* Process after the dedup test passed: flattened data, registry update for
\* a nodeinfo, smart_from, template execution
processData(p, key, entries, msgType, data, now) ==
  LET fromStr == dataString(data, "from")
      rec == [ShortName |-> dataString(data, "shortname"),
              LongName |-> dataString(data, "longname"),
              UpdatedAt |-> now]
      nodes1 == IF msgType = NodeinfoType /\ fromStr # <<>>
                THEN update(p.nodes, fromStr, rec) ELSE p.nodes
  IN  [p |-> [cache |-> entries, nodes |-> nodes1], key |-> key,
       result |-> [Drop |-> FALSE,
                   Formatted |-> meshExecute(selectTemplate(msgType),
                                             MapSet(data, "smart_from",
                                                    smartFrom(nodes1, data))),
                   err |-> FALSE]]

\* Process on a decoded object: a duplicate is dropped, the cache keeping
\* what seen left in it
processDecoded(p, raw, s, now) ==
  IF s.ret
  THEN [p |-> [cache |-> s.entries, nodes |-> p.nodes], key |-> idKey(raw),
        result |-> [Drop |-> TRUE, Formatted |-> <<>>, err |-> FALSE]]
  ELSE processData(p, idKey(raw), s.entries, typeOf(raw),
                   flattenMeshtastic(raw, typeOf(raw)), now)

\* meshtasticProcessor.Process on processor state p = [cache, nodes]: a
\* payload that is not a JSON object passes through with a zero result
processUnmarshalled(p, u, now) ==
  IF ~u.ok
  THEN [p |-> p, key |-> <<>>,
        result |-> [Drop |-> FALSE, Formatted |-> <<>>, err |-> FALSE]]
  ELSE processDecoded(p, u.raw, dedup(p.cache, u.raw, now), now)

\* meshtasticProcessor.Process
Process(p, msg, now) == processUnmarshalled(p, jsonUnmarshal(msg.Payload), now)

\* the processor instances New creates and handleMessage can reach
ProcInstances == {processors[p] : p \in DOMAIN processors}

\* one iteration of the loop of handleMessage for matched mapping r, pr being
\* what the route's processor returns when the route has one
meshRoute(st, msg, r, ran, inst, pr) ==
  LET result == IF ran THEN pr.result ELSE NoResult
      st1 == IF ran
             THEN [st EXCEPT !.proc[inst] = pr.p,
                             !.procs = Append(@, [route |-> r, instance |-> inst,
                                                  result |-> result])]
             ELSE st
      d == dispatch(ran, result)
      channels == Mappings[r].IRCChannels
  IN  IF d = "skip" THEN st1
      ELSE [st1 EXCEPT !.sends = @ \o [i \in 1..Len(channels) |->
              [route |-> r, channel |-> channels[i],
               text |-> IF d = "direct" THEN directText(result)
                        ELSE FormatMessage(msg, Mappings[r].MessageFormat,
                                           MaxMessageLength, TruncateSuffix)]]]

\* the processor instance of mapping r
instanceOf(r) == processors[Mappings[r].MQTTTopic]

RECURSIVE meshRoutes(_, _, _, _)
\* "for _, mapping := range mappings" of handleMessage from the k-th matched
\* mapping on, with the meshtastic processor as the processor of a route
meshRoutes(st, msg, now, k) ==
  IF k > Len(st.mappings) THEN st
  ELSE meshRoutes(meshRoute(st, msg, st.mappings[k], hasProcessor(st.mappings[k]),
                            instanceOf(st.mappings[k]),
                            Process(st.proc[instanceOf(st.mappings[k])], msg, now)),
                  msg, now, k + 1)

(***************************************************************************)
(* mqtt/client: the messages the broker delivers and the callback.         *)
(***************************************************************************)
\* topic "a/b" payload "hi"; topic "a/b/c" payload "x\ny z"; topic "q" payload "n"
Deliveries ==
  { [Topic |-> <<97, 47, 98>>, Payload |-> <<104, 105>>],
    [Topic |-> <<97, 47, 98, 47, 99>>, Payload |-> <<120, 10, 121, 32, 122>>],
    [Topic |-> <<113>>, Payload |-> <<110>>] }

\* the zero types.Message a receive on a closed, empty channel yields
ZeroMsg == [id |-> 0, Topic |-> <<>>, Payload |-> <<>>]

\* messageHandler with a plain channel send instead of select/default
messageHandlerBlocking(q, isClosed, m) ==
  IF isClosed THEN [queue |-> q, outcome |-> "panic"]
  ELSE IF Len(q) < MaxSize THEN [queue |-> Append(q, m), outcome |-> "enqueued"]
  ELSE [queue |-> q, outcome |-> "blocked"]

\* the select of messageHandler on the channel: the send case, else default
messageHandler(q, isClosed, m) ==
  IF isClosed THEN [queue |-> q, outcome |-> "panic"]
  ELSE IF Len(q) < MaxSize THEN [queue |-> Append(q, m), outcome |-> "enqueued"]
  ELSE [queue |-> q, outcome |-> "dropped"]

\* a receive that leaves the message in the channel
chanRecvPeek(q) == q

\* the channel after the worker's receive "msg := <-b.msgQueue"
chanRecv(q) == Tail(q)

VARIABLES
  blockOnFull,      \* bridge.queue.block_on_full
  runState,         \* Run: "idle", "mqttUp", "running", "failed", "returned"
  mqttConnected,    \* the MQTT client is connected and subscribed
  ircConnected,     \* the IRC client is connected
  cancelled,        \* the context given to Run is done
  msgQueue,         \* the buffered channel
  closed,           \* close(b.msgQueue) has run
  crashed,          \* a goroutine panicked
  produced,         \* messages the MQTT callback was called with
  lastOutcome,      \* how the last messageHandler call ended
  accepted,         \* ids of the messages put into the channel, in order
  handled,          \* ids of the messages passed to handleMessage, in order
  zeroCount,        \* receives made on the closed, empty channel
  pc,               \* worker: "none", "select", "route", "send", "exited"
  cur,              \* the handleMessage call in progress, or the last one
  shutdown,         \* Shutdown: "idle", "waiting", "returned"
  shutdownVia,      \* the case Shutdown's select took: "none", "done", "timeout"
  deadlineElapsed   \* the context given to Shutdown is done

bridgeVars == << blockOnFull, runState, mqttConnected, ircConnected, cancelled,
                 msgQueue, closed, crashed, produced, lastOutcome, accepted,
                 handled, zeroCount, pc, cur, shutdown, shutdownVia,
                 deadlineElapsed >>

VARIABLES
  mNow,             \* time.Now() of the processor specification
  mProc,            \* per processor instance: cache entries and registry nodes
  mHandled,         \* messages handed to handleMessage
  mLast,            \* the last handleMessage call: message, routes, results, sends
  mPassed           \* <<instance, key>> -> time of the last Process call that
                    \* carried the identifier key and was not dropped

meshVars == << mNow, mProc, mHandled, mLast, mPassed >>

\* no handleMessage call yet
NoMeshCall ==
  [msg |-> ZeroMsg, now |-> 0, mappings |-> <<>>, procs |-> <<>>, sends |-> <<>>]

\* newMeshtasticProcessor without node_db: an empty cache, an empty registry
MeshInit ==
  /\ mNow = 0
  /\ mProc = [i \in ProcInstances |-> [cache |-> <<>>, nodes |-> <<>>]]
  /\ mHandled = 0
  /\ mLast = NoMeshCall
  /\ mPassed = <<>>

VARIABLES
  sTokens,          \* tokens the limiter can hand out at once
  sCancelled,       \* the context given to SendMessage is done
  sPc,              \* SendMessage: "idle", "reserved", "waiting", "wokenCancel",
                    \* "granted"
  sTimerDue,        \* the timer of the pending reservation has fired
  sJoined,          \* c.channels: channels whose JOIN the server echoed
  sJoinSent,        \* channels Cmd.Join was issued for and not yet echoed
  sCalls,           \* SendMessage calls started
  sSent,            \* Cmd.Message calls made
  sLast,            \* how the last call returned: "none", "ok", "cancelled"
  sWaitCancelled    \* the context was cancelled while the current call waited

sendVars == << sTokens, sCancelled, sPc, sTimerDue, sJoined, sJoinSent, sCalls,
              sSent, sLast, sWaitCancelled >>

\* rate_limit.burst
Burst == 1

\* NewClient: a full bucket, no channel joined
SendInit ==
  /\ sTokens = Burst
  /\ sCancelled = FALSE
  /\ sPc = "idle"
  /\ sTimerDue = FALSE
  /\ sJoined = {}
  /\ sJoinSent = {}
  /\ sCalls = 0
  /\ sSent = 0
  /\ sLast = "none"
  /\ sWaitCancelled = FALSE

\* goroutines that call dedupCache.seen
CacheWorkers == {1, 2}

\* identifiers passed to seen: "7" and "8"
CacheIds == {<<55>>, <<56>>}

VARIABLES
  cNow,             \* time.Now() of the cache specification
  cEntries,         \* dedupCache.entries: id -> expiry
  cMu,              \* dedupCache.mu: 0, or the worker that holds it
  cPc,              \* per worker: "idle", "lock", "locked", "record", "unlock"
  cId,              \* per worker: the id of its call
  cTime,            \* per worker: the "now" its call read
  cRet,             \* per worker: "none", or what its call returns: "true", "false"
  cOverlap,         \* per worker: its call ran while another call was running
  cFirst            \* id -> time of the latest call that returned false

cacheVars == << cNow, cEntries, cMu, cPc, cId, cTime, cRet, cOverlap, cFirst >>

\* newDedupCache: no entries, the mutex free, no call running
CacheInit ==
  /\ cNow = 0
  /\ cEntries = <<>>
  /\ cMu = 0
  /\ cPc = [w \in CacheWorkers |-> "idle"]
  /\ cId = [w \in CacheWorkers |-> <<>>]
  /\ cTime = [w \in CacheWorkers |-> 0]
  /\ cRet = [w \in CacheWorkers |-> "none"]
  /\ cOverlap = [w \in CacheWorkers |-> FALSE]
  /\ cFirst = <<>>

\* goroutines that call nodeRegistry.update
RegWorkers == {1, 2}

\* inodes of the file system of the model
Inodes == {1, 2, 3, 4}

VARIABLES
  rNodes,           \* nodeRegistry.nodes of the registry bound to the path
  rW,               \* per worker: its update call (position, arguments,
                    \* marshalled data, open file, returned error)
  rDir,             \* directory: name ("db", "tmp") -> inode, 0 when absent
  rIno,             \* inode -> content of the file
  rLoaded,          \* what load() of a second registry on the path gave
  rHist             \* history: records last written per id, registry states
                    \* that existed, update calls made, failures, overlap

regVars == << rNodes, rW, rDir, rIno, rLoaded, rHist >>

\* a file that holds no complete JSON document: just created or truncated,
\* or left by a failed write
Partial == [complete |-> FALSE, json |-> <<>>]

\* no update call in progress
RegIdle ==
  [pc |-> "idle", id |-> <<>>, rec |-> <<>>, data |-> <<>>, fd |-> 0, err |-> "none"]

\* newNodeRegistry(path) with no file at the path yet, load() done
RegInit ==
  /\ rNodes = <<>>
  /\ rW = [w \in RegWorkers |-> RegIdle]
  /\ rDir = [db |-> 0, tmp |-> 0]
  /\ rIno = [i \in Inodes |-> Partial]
  /\ rLoaded = [state |-> "none", nodes |-> <<>>]
  /\ rHist = [lastRec |-> <<>>, past |-> {<<>>}, updates |-> 0,
              failed |-> FALSE, overlap |-> FALSE]

VARIABLES
  qOp,      \* the call made last: "none", "matchTopic", "IsValidPattern",
            \* "startup", "Map"
  qTopic,   \* matchTopic: its topic
  qPattern, \* matchTopic, IsValidPattern: its pattern
  qCfg,     \* startup: bridge.mappings of the configuration
  qRet,     \* what the call returned, as text
  qMapped   \* Map: the indexes of the mappings it returned

mapVars == << qOp, qTopic, qPattern, qCfg, qRet, qMapped >>

MapInit ==
  /\ qOp = "none"
  /\ qTopic = <<>>
  /\ qPattern = <<>>
  /\ qCfg = <<>>
  /\ qRet = "none"
  /\ qMapped = <<>>

VARIABLES
  fOp,   \* the formatter call made last: "none", "FormatMessage", "truncate", "sanitize"
  fArg,  \* its arguments
  fRet   \* the string it returned

fmtVars == << fOp, fArg, fRet >>

\* no formatter call
NoFmtArg ==
  [topic |-> <<>>, payload |-> <<>>, template |-> <<>>, s |-> <<>>, max |-> 0,
   suffix |-> <<>>]

FmtInit ==
  /\ fOp = "none"
  /\ fArg = NoFmtArg
  /\ fRet = <<>>

VARIABLES
  aEvent,   \* the PRIVMSG event onPRIVMSG was called with last, NoEvent when none
  aOps,     \* the bridge operations and shutdownFn calls it made, in order
  aReplies, \* the number of replies it sent
  aPending  \* the goroutine of cmdShutdown is started and has not run yet

admVars == << aEvent, aOps, aReplies, aPending >>

\* no event
NoEvent ==
  [params |-> FALSE, source |-> FALSE, target |-> <<>>, text |-> <<>>,
   nick |-> <<>>, host |-> <<>>, acceptPM |-> FALSE, called |-> FALSE]

AdmInit ==
  /\ aEvent = NoEvent
  /\ aOps = <<>>
  /\ aReplies = 0
  /\ aPending = FALSE

vars == << bridgeVars, meshVars, sendVars, cacheVars, regVars, mapVars, fmtVars, admVars >>

\* the variables of the other specifications
notBridge == << meshVars, sendVars, cacheVars, regVars, mapVars, fmtVars, admVars >>
notMesh == << bridgeVars, sendVars, cacheVars, regVars, mapVars, fmtVars, admVars >>
notSend == << bridgeVars, meshVars, cacheVars, regVars, mapVars, fmtVars, admVars >>
notCache == << bridgeVars, meshVars, sendVars, regVars, mapVars, fmtVars, admVars >>
notReg == << bridgeVars, meshVars, sendVars, cacheVars, mapVars, fmtVars, admVars >>
notMap == << bridgeVars, meshVars, sendVars, cacheVars, regVars, fmtVars, admVars >>
notFmt == << bridgeVars, meshVars, sendVars, cacheVars, regVars, mapVars, admVars >>
notAdm == << bridgeVars, meshVars, sendVars, cacheVars, regVars, mapVars, fmtVars >>

NoCall ==
  [msg |-> ZeroMsg, mappings |-> <<>>, ri |-> 1, ci |-> 1, text |-> <<>>,
   procs |-> <<>>, fmts |-> <<>>, sends |-> <<>>, done |-> TRUE]

Init ==
  /\ blockOnFull \in BOOLEAN
  /\ runState = "idle"
  /\ mqttConnected = FALSE
  /\ ircConnected = FALSE
  /\ cancelled = FALSE
  /\ msgQueue = <<>>
  /\ closed = FALSE
  /\ crashed = FALSE
  /\ produced = 0
  /\ lastOutcome = "none"
  /\ accepted = <<>>
  /\ handled = <<>>
  /\ zeroCount = 0
  /\ pc = "none"
  /\ cur = NoCall
  /\ shutdown = "idle"
  /\ shutdownVia = "none"
  /\ deadlineElapsed = FALSE
  /\ MeshInit
  /\ SendInit
  /\ CacheInit
  /\ RegInit
  /\ AdmInit
  /\ FmtInit
  /\ MapInit

(***************************************************************************)
(* Bridge.Run                                                              *)
(***************************************************************************)
\* b.mqttClient.Connect(ctx): connected and subscribed, or an error (the
\* broker refuses, or the context is done first)
RunConnectMQTT ==
  /\ runState = "idle"
  /\ \/ /\ mqttConnected' = TRUE
        /\ runState' = "mqttUp"
     \/ /\ runState' = "failed"
        /\ UNCHANGED mqttConnected
  /\ UNCHANGED << blockOnFull, ircConnected, cancelled, msgQueue, closed, crashed,
                  produced, lastOutcome, accepted, handled, zeroCount, pc, cur,
                  shutdown, shutdownVia, deadlineElapsed >>

\* a Run that returns the IRC error without disconnecting the MQTT client
RunConnectIRCNoDisconnect ==
  /\ runState = "mqttUp"
  /\ \/ /\ ircConnected' = TRUE
        /\ runState' = "running"
        /\ pc' = "select"
     \/ /\ runState' = "failed"
        /\ UNCHANGED << ircConnected, pc >>
  /\ UNCHANGED << blockOnFull, mqttConnected, cancelled, msgQueue, closed, crashed,
                  produced, lastOutcome, accepted, handled, zeroCount, cur, shutdown,
                  shutdownVia, deadlineElapsed >>

\* b.ircClient.Connect(ctx), then wg.Add(1) and "go b.processMessages(ctx)";
\* on error the MQTT client is disconnected and Run returns the error
RunConnectIRC ==
  /\ runState = "mqttUp"
  /\ \/ /\ ircConnected' = TRUE
        /\ runState' = "running"
        /\ pc' = "select"
        /\ UNCHANGED mqttConnected
     \/ /\ mqttConnected' = FALSE
        /\ runState' = "failed"
        /\ UNCHANGED << ircConnected, pc >>
  /\ UNCHANGED << blockOnFull, cancelled, msgQueue, closed, crashed, produced,
                  lastOutcome, accepted, handled, zeroCount, cur, shutdown,
                  shutdownVia, deadlineElapsed >>

\* "<-ctx.Done()" at the end of Run
RunReturn ==
  /\ runState = "running"
  /\ cancelled
  /\ runState' = "returned"
  /\ UNCHANGED << blockOnFull, mqttConnected, ircConnected, cancelled, msgQueue,
                  closed, crashed, produced, lastOutcome, accepted, handled,
                  zeroCount, pc, cur, shutdown, shutdownVia, deadlineElapsed >>

\* SIGINT / SIGTERM (or the admin shutdown command) cancels Run's context
Cancel ==
  /\ ~cancelled
  /\ cancelled' = TRUE
  /\ UNCHANGED << blockOnFull, runState, mqttConnected, ircConnected, msgQueue,
                  closed, crashed, produced, lastOutcome, accepted, handled,
                  zeroCount, pc, cur, shutdown, shutdownVia, deadlineElapsed >>

(***************************************************************************)
(* mqtt Client.messageHandler, called by the MQTT library per message      *)
(***************************************************************************)
MessageArrives ==
  /\ mqttConnected
  /\ produced < MaxMsgs
  /\ \E d \in Deliveries :
       LET m == [id |-> produced + 1, Topic |-> d.Topic, Payload |-> d.Payload]
           r == messageHandler(msgQueue, closed, m)
       IN  /\ msgQueue' = r.queue
           /\ lastOutcome' = r.outcome
           /\ crashed' = (r.outcome = "panic")
           /\ accepted' = IF r.outcome = "enqueued" THEN Append(accepted, m.id)
                          ELSE accepted
  /\ produced' = produced + 1
  /\ UNCHANGED << blockOnFull, runState, mqttConnected, ircConnected, cancelled,
                  closed, handled, zeroCount, pc, cur, shutdown, shutdownVia,
                  deadlineElapsed >>

(***************************************************************************)
(* Bridge.processMessages and Bridge.handleMessage                         *)
(***************************************************************************)
\* the position after route k of the matched mappings is finished
nextRoute(c, k) ==
  IF k + 1 > Len(c.mappings) THEN [c EXCEPT !.ri = k + 1, !.done = TRUE]
  ELSE [c EXCEPT !.ri = k + 1]

\* handleMessage up to its loop: Map, and the early return on no mapping
handleMessage(msg) ==
  LET mappings == Map(msg.Topic)
  IN  [msg |-> msg, mappings |-> mappings, ri |-> 1, ci |-> 1, text |-> <<>>,
       procs |-> <<>>, fmts |-> <<>>, sends |-> <<>>,
       done |-> (Len(mappings) = 0)]

\* "case <-ctx.Done(): return"
WorkerExit ==
  /\ pc = "select"
  /\ cancelled
  /\ pc' = "exited"
  /\ UNCHANGED << blockOnFull, runState, mqttConnected, ircConnected, cancelled,
                  msgQueue, closed, crashed, produced, lastOutcome, accepted,
                  handled, zeroCount, cur, shutdown, shutdownVia, deadlineElapsed >>

\* "case msg := <-b.msgQueue" with a message in the channel
WorkerReceive ==
  /\ pc = "select"
  /\ msgQueue # <<>>
  /\ LET c == handleMessage(Head(msgQueue))
     IN  /\ cur' = c
         /\ pc' = IF c.done THEN "select" ELSE "route"
  /\ handled' = Append(handled, Head(msgQueue).id)
  /\ msgQueue' = chanRecv(msgQueue)
  /\ UNCHANGED << blockOnFull, runState, mqttConnected, ircConnected, cancelled,
                  closed, crashed, produced, lastOutcome, accepted, zeroCount,
                  shutdown, shutdownVia, deadlineElapsed >>

\* "case msg := <-b.msgQueue" on the closed, empty channel: the zero Message
WorkerReceiveClosed ==
  /\ pc = "select"
  /\ closed
  /\ msgQueue = <<>>
  /\ zeroCount < MaxZero
  /\ LET c == handleMessage(ZeroMsg)
     IN  /\ cur' = c
         /\ pc' = IF c.done THEN "select" ELSE "route"
  /\ handled' = Append(handled, ZeroMsg.id)
  /\ zeroCount' = zeroCount + 1
  /\ UNCHANGED << blockOnFull, runState, mqttConnected, ircConnected, cancelled,
                  msgQueue, closed, crashed, produced, lastOutcome, accepted,
                  shutdown, shutdownVia, deadlineElapsed >>

\* one iteration of "for _, mapping := range mappings" up to its first send:
\* the processor (if b.processors has one for the pattern), then FormatMessage
WorkerRoute ==
  /\ pc = "route"
  /\ LET r == cur.mappings[cur.ri]
         ran == hasProcessor(r)
     IN  \E result \in (IF ran THEN ProcessResults ELSE {NoResult}) :
           LET c1 == IF ran
                     THEN [cur EXCEPT !.procs = Append(@, [route |-> r,
                                        instance |-> processors[Mappings[r].MQTTTopic],
                                        result |-> result])]
                     ELSE cur
               d == dispatch(ran, result)
           IN  \/ /\ d = "skip"
                  /\ cur' = nextRoute(c1, cur.ri)
                  /\ pc' = IF cur'.done THEN "select" ELSE "route"
               \/ /\ d = "direct"
                  /\ cur' = [c1 EXCEPT !.text = directText(result), !.ci = 1]
                  /\ pc' = "send"
               \/ /\ d = "format"
                  /\ cur' = [c1 EXCEPT
                               !.text = FormatMessage(cur.msg, Mappings[r].MessageFormat,
                                                      MaxMessageLength, TruncateSuffix),
                               !.fmts = Append(@, r),
                               !.ci = 1]
                  /\ pc' = "send"
  /\ UNCHANGED << blockOnFull, runState, mqttConnected, ircConnected, cancelled,
                  msgQueue, closed, crashed, produced, lastOutcome, accepted,
                  handled, zeroCount, shutdown, shutdownVia, deadlineElapsed >>

\* a loop over the channels that returns from handleMessage on a failed send
afterSendReturnOnError(c, ok) ==
  IF ~ok THEN [c EXCEPT !.done = TRUE]
  ELSE IF c.ci < Len(Mappings[c.mappings[c.ri]].IRCChannels)
       THEN [c EXCEPT !.ci = c.ci + 1]
       ELSE nextRoute(c, c.ri)

\* "for _, channel := range mapping.IRCChannels" after one SendMessage call
\* returned: an error is logged and the loop goes on with the next channel,
\* after the last channel with the next mapping
afterSend(c, ok) ==
  IF c.ci < Len(Mappings[c.mappings[c.ri]].IRCChannels)
  THEN [c EXCEPT !.ci = c.ci + 1]
  ELSE nextRoute(c, c.ri)

\* a SendMessage whose limiter never looks at the context
WorkerSendIgnoresCancel ==
  /\ pc = "send"
  /\ LET r == cur.mappings[cur.ri]
         channels == Mappings[r].IRCChannels
         c1 == [cur EXCEPT !.sends = Append(@, [route |-> r,
                                                 channel |-> channels[cur.ci],
                                                 text |-> cur.text,
                                                 ok |-> TRUE])]
     IN  /\ cur' = afterSend(c1, TRUE)
         /\ pc' = IF cur'.done THEN "select"
                  ELSE IF cur'.ri = cur.ri THEN "send" ELSE "route"
  /\ UNCHANGED << blockOnFull, runState, mqttConnected, ircConnected, cancelled,
                  msgQueue, closed, crashed, produced, lastOutcome, accepted,
                  handled, zeroCount, shutdown, shutdownVia, deadlineElapsed >>

\* b.ircClient.SendMessage(ctx, channel, formatted): limiter.Wait(ctx) fails
\* when the context is done, otherwise the message is transmitted
WorkerSend ==
  /\ pc = "send"
  /\ LET r == cur.mappings[cur.ri]
         channels == Mappings[r].IRCChannels
         ok == ~cancelled
         c1 == [cur EXCEPT !.sends = Append(@, [route |-> r,
                                                 channel |-> channels[cur.ci],
                                                 text |-> cur.text,
                                                 ok |-> ok])]
     IN  /\ cur' = afterSend(c1, ok)
         /\ pc' = IF cur'.done THEN "select"
                  ELSE IF cur'.ri = cur.ri THEN "send" ELSE "route"
  /\ UNCHANGED << blockOnFull, runState, mqttConnected, ircConnected, cancelled,
                  msgQueue, closed, crashed, produced, lastOutcome, accepted,
                  handled, zeroCount, shutdown, shutdownVia, deadlineElapsed >>

(***************************************************************************)
(* Bridge.Shutdown, called by main once Run's context is done              *)
(***************************************************************************)
\* close(b.msgQueue)
ShutdownClose ==
  /\ shutdown = "idle"
  /\ cancelled
  /\ closed' = TRUE
  /\ shutdown' = "waiting"
  /\ UNCHANGED << blockOnFull, runState, mqttConnected, ircConnected, cancelled,
                  msgQueue, crashed, produced, lastOutcome, accepted, handled,
                  zeroCount, pc, cur, shutdownVia, deadlineElapsed >>

\* the deadline of the context given to Shutdown passes
DeadlineElapses ==
  /\ shutdown = "waiting"
  /\ ~deadlineElapsed
  /\ deadlineElapsed' = TRUE
  /\ UNCHANGED << blockOnFull, runState, mqttConnected, ircConnected, cancelled,
                  msgQueue, closed, crashed, produced, lastOutcome, accepted,
                  handled, zeroCount, pc, cur, shutdown, shutdownVia >>

\* "case <-done": b.wg.Wait() returned; then both clients are disconnected
ShutdownDone ==
  /\ shutdown = "waiting"
  /\ pc \in {"none", "exited"}
  /\ shutdownVia' = "done"
  /\ shutdown' = "returned"
  /\ mqttConnected' = FALSE
  /\ ircConnected' = FALSE
  /\ UNCHANGED << blockOnFull, runState, cancelled, msgQueue, closed, crashed,
                  produced, lastOutcome, accepted, handled, zeroCount, pc, cur,
                  deadlineElapsed >>

\* "case <-ctx.Done()": the deadline passed; then both clients are disconnected
ShutdownTimeout ==
  /\ shutdown = "waiting"
  /\ deadlineElapsed
  /\ shutdownVia' = "timeout"
  /\ shutdown' = "returned"
  /\ mqttConnected' = FALSE
  /\ ircConnected' = FALSE
  /\ UNCHANGED << blockOnFull, runState, cancelled, msgQueue, closed, crashed,
                  produced, lastOutcome, accepted, handled, zeroCount, pc, cur,
                  deadlineElapsed >>

\* a panic ends the process: nothing runs after it
Next ==
  /\ ~crashed
  /\ \/ RunConnectMQTT
     \/ RunConnectIRC
     \/ RunReturn
     \/ Cancel
     \/ MessageArrives
     \/ WorkerExit
     \/ WorkerReceive
     \/ WorkerReceiveClosed
     \/ WorkerRoute
     \/ WorkerSend
     \/ ShutdownClose
     \/ DeadlineElapses
     \/ ShutdownDone
     \/ ShutdownTimeout
  /\ UNCHANGED notBridge

Spec == Init /\ [][Next]_vars

(***************************************************************************)
(* The pipeline with the meshtastic processor: one worker, every           *)
(* handleMessage call as one step, every send successful.                  *)
(***************************************************************************)
\* what the broker delivers: the short payloads on topic "a/b", which routes
\* 1, 2 and 3 match; the nodeinfo payloads on topic "a/b/c", which routes 1
\* and 2 match; two payloads on topic "q", which no route matches; two
\* payloads on topic "m/x", which routes 4 and 5 match
MeshDeliveries ==
  { [Topic |-> <<97, 47, 98>>, Payload |-> pl] :
       pl \in {PayloadId7, PayloadIdStr7, PayloadNoId, PayloadNullId, PayloadSender,
               PayloadText, PayloadNull, PayloadArray} }
  \cup { [Topic |-> <<97, 47, 98, 47, 99>>, Payload |-> pl] :
            pl \in {PayloadNodeinfo, PayloadNodeinfoEmpty, PayloadNodeinfoRenamed,
                    PayloadNodeinfoOther} }
  \cup { [Topic |-> <<113>>, Payload |-> pl] : pl \in {PayloadId7, PayloadNodeinfo} }
  \cup { [Topic |-> <<109, 47, 120>>, Payload |-> pl] : pl \in {PayloadId7, PayloadNoId} }

\* the end of handleMessage: the processors keep their state; the call and
\* the identifiers that passed a processor are recorded
meshHandled(msg, raw, st) ==
  LET passed == {<<st.procs[j].instance, SprintfV(raw["id"])>> :
                   j \in {i \in 1..Len(st.procs) :
                            /\ ~st.procs[i].result.Drop
                            /\ "id" \in DOMAIN raw
                            /\ raw["id"].k # "null"}}
  IN  /\ mProc' = st.proc
      /\ mLast' = [msg |-> msg, now |-> mNow, mappings |-> st.mappings,
                   procs |-> st.procs, sends |-> st.sends]
      /\ mPassed' = [x \in DOMAIN mPassed \cup passed |->
                       IF x \in passed THEN mNow ELSE mPassed[x]]

\* handleMessage on msg: the routes of its topic, one after the other
meshHandleMessage(msg) ==
  meshHandled(msg, jsonUnmarshal(msg.Payload).raw,
              meshRoutes([proc |-> mProc, mappings |-> Map(msg.Topic),
                          procs |-> <<>>, sends |-> <<>>], msg, mNow, 1))

\* processMessages receives one message and handleMessage runs to its end
MeshHandle ==
  /\ mHandled < MaxMeshMsgs
  /\ \E d \in MeshDeliveries :
       meshHandleMessage([id |-> mHandled + 1, Topic |-> d.Topic, Payload |-> d.Payload])
  /\ mHandled' = mHandled + 1
  /\ UNCHANGED mNow
  /\ UNCHANGED notMesh

\* time passes
MeshTick ==
  /\ mNow < MaxTime
  /\ mNow' = mNow + 1
  /\ UNCHANGED << mProc, mHandled, mLast, mPassed >>
  /\ UNCHANGED notMesh

InitMesh == Init /\ blockOnFull = FALSE

NextMesh == MeshHandle \/ MeshTick

SpecMesh == InitMesh /\ [][NextMesh]_vars

(***************************************************************************)
(* irc Client.SendMessage with its rate limiter: one caller, as in the     *)
(* bridge, and the context the caller passes.                              *)
(***************************************************************************)
\* SendMessage calls one run makes
MaxSends == 3

SendChannels == {"#x", "#y"}

\* a wait that ignores the context
onCancelIgnored(p) == p

\* limiter.Wait(ctx) parked in its select: the close of ctx.Done() wakes it
\* with the context's case; in any other position the call is untouched
onCancel(p) == IF p = "waiting" THEN "wokenCancel" ELSE p

\* SendMessage up to the limiter's decision: JoinChannel, then Wait returns
\* the context's error if it is done, takes a token if there is one, or
\* reserves the next token and sets a timer
SendBegin ==
  /\ sPc = "idle"
  /\ sCalls < MaxSends
  /\ sCalls' = sCalls + 1
  /\ \E ch \in SendChannels :
       sJoinSent' = IF ch \in sJoined THEN sJoinSent ELSE sJoinSent \cup {ch}
  /\ sWaitCancelled' = FALSE
  /\ sTimerDue' = FALSE
  /\ IF sCancelled
     THEN /\ sLast' = "cancelled"
          /\ UNCHANGED << sPc, sTokens >>
     ELSE IF sTokens > 0
     THEN /\ sTokens' = sTokens - 1
          /\ sPc' = "granted"
          /\ UNCHANGED sLast
     ELSE /\ sPc' = "reserved"
          /\ UNCHANGED << sTokens, sLast >>
  /\ UNCHANGED << sCancelled, sJoined, sSent >>
  /\ UNCHANGED notSend

\* the select of Wait is entered: with both cases ready either is taken
SendEnterSelect ==
  /\ sPc = "reserved"
  /\ \/ /\ sCancelled
        /\ sPc' = "wokenCancel"
     \/ /\ sTimerDue
        /\ sPc' = "granted"
     \/ /\ ~sCancelled /\ ~sTimerDue
        /\ sPc' = "waiting"
  /\ UNCHANGED << sTokens, sCancelled, sTimerDue, sJoined, sJoinSent, sCalls,
                  sSent, sLast, sWaitCancelled >>
  /\ UNCHANGED notSend

\* the reserved token falls due: the timer fires and wakes a parked call
SendTimerFires ==
  /\ sPc \in {"reserved", "waiting"}
  /\ ~sTimerDue
  /\ sTimerDue' = TRUE
  /\ sPc' = IF sPc = "waiting" THEN "granted" ELSE sPc
  /\ UNCHANGED << sTokens, sCancelled, sJoined, sJoinSent, sCalls, sSent, sLast,
                  sWaitCancelled >>
  /\ UNCHANGED notSend

\* the caller's context is cancelled
SendCancel ==
  /\ ~sCancelled
  /\ sCancelled' = TRUE
  /\ sPc' = onCancel(sPc)
  /\ sWaitCancelled' = (sPc = "waiting")
  /\ UNCHANGED << sTokens, sTimerDue, sJoined, sJoinSent, sCalls, sSent, sLast >>
  /\ UNCHANGED notSend

\* Wait returns ctx.Err() and SendMessage returns "rate limiter error"
SendReturnCancelled ==
  /\ sPc = "wokenCancel"
  /\ sPc' = "idle"
  /\ sLast' = "cancelled"
  /\ UNCHANGED << sTokens, sCancelled, sTimerDue, sJoined, sJoinSent, sCalls,
                  sSent, sWaitCancelled >>
  /\ UNCHANGED notSend

\* Wait returned nil: c.client.Cmd.Message(channel, message), return nil
SendTransmit ==
  /\ sPc = "granted"
  /\ sPc' = "idle"
  /\ sSent' = sSent + 1
  /\ sLast' = "ok"
  /\ UNCHANGED << sTokens, sCancelled, sTimerDue, sJoined, sJoinSent, sCalls,
                  sWaitCancelled >>
  /\ UNCHANGED notSend

\* time passes with no reservation pending: the bucket gains a token
SendRefill ==
  /\ sPc \notin {"reserved", "waiting"}
  /\ sTokens < Burst
  /\ sTokens' = sTokens + 1
  /\ UNCHANGED << sCancelled, sPc, sTimerDue, sJoined, sJoinSent, sCalls, sSent,
                  sLast, sWaitCancelled >>
  /\ UNCHANGED notSend

\* onJoin: the server echoes a JOIN of the client
SendOnJoin ==
  /\ \E ch \in sJoinSent :
       /\ sJoined' = sJoined \cup {ch}
       /\ sJoinSent' = sJoinSent \ {ch}
  /\ UNCHANGED << sTokens, sCancelled, sPc, sTimerDue, sCalls, sSent, sLast,
                  sWaitCancelled >>
  /\ UNCHANGED notSend

InitSend == Init /\ blockOnFull = FALSE

NextSend ==
  \/ SendBegin
  \/ SendEnterSelect
  \/ SendTimerFires
  \/ SendCancel
  \/ SendReturnCancelled
  \/ SendTransmit
  \/ SendRefill
  \/ SendOnJoin

SpecSend == InitSend /\ [][NextSend]_vars

\* the goroutine in SendMessage keeps running, and a set timer fires
SpecSendFair ==
  /\ SpecSend
  /\ WF_vars(SendEnterSelect)
  /\ WF_vars(SendTimerFires)
  /\ WF_vars(SendReturnCancelled)
  /\ WF_vars(SendTransmit)

(***************************************************************************)
(* dedupCache.seen called by several goroutines.                           *)
(***************************************************************************)
\* a Lock that never waits
lockFreeAlways(mu) == TRUE

\* c.mu.Lock() goes through only while no goroutine holds the mutex
lockFree(mu) == mu = 0

\* a goroutine calls seen(id) and arrives at c.mu.Lock()
SeenCall(w) ==
  /\ cPc[w] = "idle"
  /\ \E id \in CacheIds : cId' = [cId EXCEPT ![w] = id]
  /\ cPc' = [cPc EXCEPT ![w] = "lock"]
  /\ cRet' = [cRet EXCEPT ![w] = "none"]
  /\ cOverlap' = IF \E v \in CacheWorkers \ {w} : cPc[v] # "idle"
                 THEN [v \in CacheWorkers |-> cOverlap[v] \/ v = w \/ cPc[v] # "idle"]
                 ELSE [cOverlap EXCEPT ![w] = FALSE]
  /\ UNCHANGED << cNow, cEntries, cMu, cTime, cFirst >>
  /\ UNCHANGED notCache

\* c.mu.Lock()
SeenLock(w) ==
  /\ cPc[w] = "lock"
  /\ lockFree(cMu)
  /\ cMu' = w
  /\ cPc' = [cPc EXCEPT ![w] = "locked"]
  /\ UNCHANGED << cNow, cEntries, cId, cTime, cRet, cOverlap, cFirst >>
  /\ UNCHANGED notCache

\* now := time.Now(), the eviction loop and the test of the id
SeenEvictTest(w) ==
  /\ cPc[w] = "locked"
  /\ cTime' = [cTime EXCEPT ![w] = cNow]
  /\ cEntries' = evict(cEntries, cNow)
  /\ IF seenTest(cEntries', cId[w], cNow)
     THEN /\ cRet' = [cRet EXCEPT ![w] = "true"]
          /\ cPc' = [cPc EXCEPT ![w] = "unlock"]
     ELSE /\ cPc' = [cPc EXCEPT ![w] = "record"]
          /\ UNCHANGED cRet
  /\ UNCHANGED << cNow, cMu, cId, cOverlap, cFirst >>
  /\ UNCHANGED notCache

\* c.entries[id] = now.Add(c.window); return false
SeenRecord(w) ==
  /\ cPc[w] = "record"
  /\ cEntries' = MapSet(cEntries, cId[w], cTime[w] + DedupWindow)
  /\ cRet' = [cRet EXCEPT ![w] = "false"]
  /\ cFirst' = MapSet(cFirst, cId[w], cTime[w])
  /\ cPc' = [cPc EXCEPT ![w] = "unlock"]
  /\ UNCHANGED << cNow, cMu, cId, cTime, cOverlap >>
  /\ UNCHANGED notCache

\* the deferred c.mu.Unlock(), and the call returns
SeenUnlock(w) ==
  /\ cPc[w] = "unlock"
  /\ cMu' = 0
  /\ cPc' = [cPc EXCEPT ![w] = "idle"]
  /\ UNCHANGED << cNow, cEntries, cId, cTime, cRet, cOverlap, cFirst >>
  /\ UNCHANGED notCache

\* time passes
CacheTick ==
  /\ cNow < MaxTime
  /\ cNow' = cNow + 1
  /\ UNCHANGED << cEntries, cMu, cPc, cId, cTime, cRet, cOverlap, cFirst >>
  /\ UNCHANGED notCache

InitCache == Init /\ blockOnFull = FALSE

NextCache ==
  \/ \E w \in CacheWorkers : SeenCall(w)
  \/ \E w \in CacheWorkers : SeenLock(w)
  \/ \E w \in CacheWorkers : SeenEvictTest(w)
  \/ \E w \in CacheWorkers : SeenRecord(w)
  \/ \E w \in CacheWorkers : SeenUnlock(w)
  \/ CacheTick

SpecCache == InitCache /\ [][NextCache]_vars

(***************************************************************************)
(* nodeRegistry with a node_db path: update and save called by several     *)
(* goroutines, the files at path and path + ".tmp", and load() of a second *)
(* registry on the same path.                                              *)
(***************************************************************************)
\* update calls one run makes
MaxUpdates == 3

\* node ids "1" and "2"
RegIds == {<<49>>, <<50>>}

\* records: short "A" long "L"; no short name, long "M"
RegRecords ==
  { [ShortName |-> <<65>>, LongName |-> <<76>>, UpdatedAt |-> 0],
    [ShortName |-> <<>>, LongName |-> <<77>>, UpdatedAt |-> 0] }

\* one nodeRecord as a JSON object: "shortname" and "longname" carry
\* omitempty and are left out when empty
marshalRecord(rec) ==
  [k \in ({"updated_at"}
           \cup (IF rec.ShortName # <<>> THEN {"shortname"} ELSE {})
           \cup (IF rec.LongName # <<>> THEN {"longname"} ELSE {})) |->
     IF k = "shortname" THEN rec.ShortName
     ELSE IF k = "longname" THEN rec.LongName
     ELSE rec.UpdatedAt]

\* json.MarshalIndent(r.nodes, "", "  ")
Marshal(nodes) == [id \in DOMAIN nodes |-> marshalRecord(nodes[id])]

\* one JSON object decoded into a nodeRecord: a missing field stays ""
unmarshalRecord(obj) ==
  [ShortName |-> IF "shortname" \in DOMAIN obj THEN obj["shortname"] ELSE <<>>,
   LongName |-> IF "longname" \in DOMAIN obj THEN obj["longname"] ELSE <<>>,
   UpdatedAt |-> obj["updated_at"]]

\* json.Unmarshal(data, &r.nodes) on a complete document
Unmarshal(json) == [id \in DOMAIN json |-> unmarshalRecord(json[id])]

\* nodeRegistry.load of a fresh registry: no file is an empty registry, a
\* file that does not parse is an error
load(dir, ino) ==
  IF dir["db"] = 0 THEN [state |-> "ok", nodes |-> <<>>]
  ELSE IF ~ino[dir["db"]].complete THEN [state |-> "error", nodes |-> <<>>]
  ELSE [state |-> "ok", nodes |-> Unmarshal(ino[dir["db"]].json)]

\* nodeRegistry.get
get(nodes, from) ==
  IF from \in DOMAIN nodes THEN [rec |-> nodes[from], ok |-> TRUE]
  ELSE [rec |-> [ShortName |-> <<>>, LongName |-> <<>>, UpdatedAt |-> 0], ok |-> FALSE]

\* an update that takes its record out of the map when save fails
onSaveErrorRollback(nodes, from) == [k \in DOMAIN nodes \ {from} |-> nodes[k]]

\* update returns save's error as it is: the map keeps the record
onSaveError(nodes, from) == nodes

\* a rename that leaves the directory as it is
renameNothing(dir) == dir

\* os.Rename(tmpPath, r.path): the name path now holds the temporary file
rename(dir) == [db |-> dir["tmp"], tmp |-> 0]

\* inodes no name and no open file refers to
FreeInodes ==
  {i \in Inodes : /\ i # rDir["db"] /\ i # rDir["tmp"]
                  /\ \A w \in RegWorkers : rW[w].fd # i}

\* update: Lock, r.nodes[from] = rec, Unlock
RegUpdate(w) ==
  /\ rW[w].pc = "idle"
  /\ rHist.updates < MaxUpdates
  /\ \E id \in RegIds, rec \in RegRecords :
       /\ rNodes' = MapSet(rNodes, id, rec)
       /\ rW' = [rW EXCEPT ![w] = [RegIdle EXCEPT !.pc = "marshal", !.id = id,
                                                   !.rec = rec]]
       /\ rHist' = [rHist EXCEPT
                      !.lastRec = MapSet(@, id, rec),
                      !.past = @ \cup {rNodes'},
                      !.updates = @ + 1,
                      !.overlap = @ \/ \E v \in RegWorkers \ {w} : rW[v].pc # "idle"]
  /\ UNCHANGED << rDir, rIno, rLoaded >>
  /\ UNCHANGED notReg

\* save: RLock, json.MarshalIndent(r.nodes), RUnlock
RegMarshal(w) ==
  /\ rW[w].pc = "marshal"
  /\ rW' = [rW EXCEPT ![w].pc = "open", ![w].data = Marshal(rNodes)]
  /\ UNCHANGED << rNodes, rDir, rIno, rLoaded, rHist >>
  /\ UNCHANGED notReg

\* os.WriteFile opens tmpPath with O_CREATE|O_TRUNC: the file there is
\* emptied, or a new one is created; or the open fails and update returns
RegOpen(w) ==
  /\ rW[w].pc = "open"
  /\ \/ /\ rDir["tmp"] # 0
        /\ rIno' = [rIno EXCEPT ![rDir["tmp"]] = Partial]
        /\ rW' = [rW EXCEPT ![w].pc = "write", ![w].fd = rDir["tmp"]]
        /\ UNCHANGED << rNodes, rDir, rHist >>
     \/ /\ rDir["tmp"] = 0
        /\ LET n == CHOOSE i \in FreeInodes : \A j \in FreeInodes : i <= j
           IN  /\ rIno' = [rIno EXCEPT ![n] = Partial]
               /\ rDir' = [rDir EXCEPT !["tmp"] = n]
               /\ rW' = [rW EXCEPT ![w].pc = "write", ![w].fd = n]
        /\ UNCHANGED << rNodes, rHist >>
     \/ /\ rW' = [rW EXCEPT ![w].pc = "idle", ![w].err = "error"]
        /\ rNodes' = onSaveError(rNodes, rW[w].id)
        /\ rHist' = [rHist EXCEPT !.failed = TRUE]
        /\ UNCHANGED << rDir, rIno >>
  /\ UNCHANGED rLoaded
  /\ UNCHANGED notReg

\* os.WriteFile writes the data and closes the file; a failed write leaves
\* a partial file and update returns the error
RegWrite(w) ==
  /\ rW[w].pc = "write"
  /\ \/ /\ rIno' = [rIno EXCEPT ![rW[w].fd] = [complete |-> TRUE, json |-> rW[w].data]]
        /\ rW' = [rW EXCEPT ![w].pc = "rename", ![w].fd = 0]
        /\ UNCHANGED << rNodes, rHist >>
     \/ /\ rIno' = [rIno EXCEPT ![rW[w].fd] = Partial]
        /\ rW' = [rW EXCEPT ![w].pc = "idle", ![w].fd = 0, ![w].err = "error"]
        /\ rNodes' = onSaveError(rNodes, rW[w].id)
        /\ rHist' = [rHist EXCEPT !.failed = TRUE]
  /\ UNCHANGED << rDir, rLoaded >>
  /\ UNCHANGED notReg

\* os.Rename(tmpPath, r.path), and update returns: nil, or the error of a
\* rename that failed (always so when no file is at tmpPath)
RegRename(w) ==
  /\ rW[w].pc = "rename"
  /\ \/ /\ rDir["tmp"] # 0
        /\ rDir' = rename(rDir)
        /\ rW' = [rW EXCEPT ![w].pc = "idle", ![w].err = "nil"]
        /\ UNCHANGED << rNodes, rHist >>
     \/ /\ rW' = [rW EXCEPT ![w].pc = "idle", ![w].err = "error"]
        /\ rNodes' = onSaveError(rNodes, rW[w].id)
        /\ rHist' = [rHist EXCEPT !.failed = TRUE]
        /\ UNCHANGED rDir
  /\ UNCHANGED << rIno, rLoaded >>
  /\ UNCHANGED notReg

\* a second registry is constructed on the path and loaded
RegLoad ==
  /\ rLoaded' = load(rDir, rIno)
  /\ rLoaded' # rLoaded
  /\ UNCHANGED << rNodes, rW, rDir, rIno, rHist >>
  /\ UNCHANGED notReg

InitReg == Init /\ blockOnFull = FALSE

NextReg ==
  \/ \E w \in RegWorkers : RegUpdate(w)
  \/ \E w \in RegWorkers : RegMarshal(w)
  \/ \E w \in RegWorkers : RegOpen(w)
  \/ \E w \in RegWorkers : RegWrite(w)
  \/ \E w \in RegWorkers : RegRename(w)
  \/ RegLoad

SpecReg == InitReg /\ [][NextReg]_vars

(***************************************************************************)
(* SpecMapper: the mapper's pure functions applied to topics and patterns  *)
(* built from a few segments, and the start of the program on a            *)
(* configuration: config.Validate, then bridge.New, then Run.              *)
(***************************************************************************)
\* most segments of a topic
MaxTopicSegs == 4
\* most segments of a pattern
MaxPatternSegs == 3
\* most mappings of a configuration
MaxMappings == 2

\* the sequences of 1..n elements of S
SeqsUpTo(S, n) == UNION {[1..k -> S] : k \in 1..n}

\* topic segments: "", "a", "b"
TopicSegs == {<<>>, <<97>>, <<98>>}

\* pattern segments: "", "a", "+", "#", "a+"
PatternSegs == {<<>>, <<97>>, <<43>>, <<35>>, <<97, 43>>}

\* further segments for IsValidPattern: "#a", "..", "a..b", "++", "##", "."
ValidSegs ==
  PatternSegs \cup {<<35, 97>>, <<46, 46>>, <<97, 46, 46, 98>>, <<43, 43>>,
                    <<35, 35>>, <<46>>}

\* the topics matchTopic is called with: the patterns too, for "topic == pattern"
TopicInputs ==
  {Join(segs, <<47>>) : segs \in SeqsUpTo(TopicSegs, MaxTopicSegs)}
  \cup {Join(segs, <<47>>) : segs \in SeqsUpTo(PatternSegs, 2)}

PatternInputs == {Join(segs, <<47>>) : segs \in SeqsUpTo(PatternSegs, MaxPatternSegs)}

ValidInputs == {Join(segs, <<47>>) : segs \in SeqsUpTo(ValidSegs, MaxPatternSegs)}

\* the processor names registered by init(): "meshtastic"
processorRegistry == {"meshtastic"}

\* the mappings of a configuration file: patterns "", "a/#", "a/#/b", "a//b";
\* channel lists empty, "#x", "x"; processors none, meshtastic, an unknown one
CfgMappings ==
  [MQTTTopic : {<<>>, <<97, 47, 35>>, <<97, 47, 35, 47, 98>>, <<97, 47, 47, 98>>},
   IRCChannels : {<<>>, << <<35, 120>> >>, << <<120>> >>},
   Processor : {"", "meshtastic", "bogus"}]

\* strings.HasPrefix(s, c) for a one-character prefix
HasPrefix(s, c) == Len(s) > 0 /\ s[1] = c

\* Validate, the body of "for i, mapping := range cfg.Bridge.Mappings": the
\* error of one mapping, "" when it has none
mappingError(m) ==
  IF m.MQTTTopic = <<>> THEN "mqtt_topic is required"
  ELSE IF Len(m.IRCChannels) = 0 THEN "irc_channels must have at least one channel"
  ELSE IF \E j \in 1..Len(m.IRCChannels) :
             ~HasPrefix(m.IRCChannels[j], 35) /\ ~HasPrefix(m.IRCChannels[j], 38)
       THEN "irc_channels must start with # or &"
  ELSE ""

\* config.Validate on a configuration whose other sections are valid: the
\* first error, "" for nil
Validate(mappings) ==
  IF Len(mappings) = 0 THEN "bridge.mappings must have at least one mapping"
  ELSE IF \A i \in 1..Len(mappings) : mappingError(mappings[i]) = "" THEN ""
  ELSE mappingError(mappings[CHOOSE i \in 1..Len(mappings) :
                               /\ mappingError(mappings[i]) # ""
                               /\ \A j \in 1..(i - 1) : mappingError(mappings[j]) = ""])

\* bridge.New: the error of NewProcessor for a name that is not registered,
\* "" for nil
New(mappings) ==
  IF \E i \in 1..Len(mappings) :
        mappings[i].Processor # "" /\ mappings[i].Processor \notin processorRegistry
  THEN "failed to create processor"
  ELSE ""

\* the start of the program: Validate, New, then Run with the mappings
startup(mappings) ==
  IF Validate(mappings) # "" THEN "rejected by Validate"
  ELSE IF New(mappings) # "" THEN "rejected by New"
  ELSE "running"

\* a call of Mapper.matchTopic
MatchCall ==
  /\ qOp = "none"
  /\ \E t \in TopicInputs, p \in PatternInputs :
       /\ qTopic' = t
       /\ qPattern' = p
       /\ qRet' = IF matchTopic(t, p) THEN "true" ELSE "false"
  /\ qOp' = "matchTopic"
  /\ qCfg' = <<>>
  /\ qMapped' = <<>>
  /\ UNCHANGED notMap

\* a call of IsValidPattern
ValidCall ==
  /\ qOp = "none"
  /\ \E p \in ValidInputs :
       /\ qPattern' = p
       /\ qRet' = IF IsValidPattern(p) THEN "true" ELSE "false"
  /\ qOp' = "IsValidPattern"
  /\ qTopic' = <<>>
  /\ qCfg' = <<>>
  /\ qMapped' = <<>>
  /\ UNCHANGED notMap

\* the program starts on a configuration
Startup ==
  /\ qOp = "none"
  /\ \E mappings \in SeqsUpTo(CfgMappings, MaxMappings) :
       /\ qCfg' = mappings
       /\ qRet' = startup(mappings)
  /\ qOp' = "startup"
  /\ qTopic' = <<>>
  /\ qPattern' = <<>>
  /\ qMapped' = <<>>
  /\ UNCHANGED notMap

\* the patterns of the mappers Map is called on: "a/#", "a/+", "a/b", "#"
MapPatterns == {<<97, 47, 35>>, <<97, 47, 43>>, <<97, 47, 98>>, <<35>>}

\* NewMapper(mappings) on a configuration, then Map(topic)
MapCall ==
  /\ qOp = "none"
  /\ \E mappings \in {<<>>} \cup SeqsUpTo([MQTTTopic : MapPatterns], MaxMappings) :
       \E t \in TopicInputs :
          /\ qCfg' = mappings
          /\ qTopic' = t
          /\ qMapped' = MapFrom(mappings, t, 1)
  /\ qOp' = "Map"
  /\ qPattern' = <<>>
  /\ qRet' = "none"
  /\ UNCHANGED notMap

\* the call is over: the caller goes on to its next call
MapReturn ==
  /\ qOp # "none"
  /\ qOp' = "none"
  /\ qTopic' = <<>>
  /\ qPattern' = <<>>
  /\ qCfg' = <<>>
  /\ qRet' = "none"
  /\ qMapped' = <<>>
  /\ UNCHANGED notMap

InitMapper == Init /\ blockOnFull = FALSE

NextMapper == MatchCall \/ ValidCall \/ Startup \/ MapCall \/ MapReturn

SpecMapper == InitMapper /\ [][NextMapper]_vars

(***************************************************************************)
(* SpecFormat: the formatter's functions applied to short strings.  A      *)
(* string is its sequence of runes; a payload is its sequence of bytes.    *)
(***************************************************************************)
\* most bytes of a payload handed to FormatMessage
MaxPayloadLen == 3
\* most runes of a string handed to sanitize
MaxStrLen == 4
\* most runes of a short string handed to truncate
MaxTruncLen == 4

\* the sequences of at most n elements of S
SeqsTo(S, n) == UNION {[1..k -> S] : k \in 0..n}

\* payload bytes: space, line feed, "a", and 255, which makes a payload binary
PayloadBytes == {32, 10, 97, 255}

\* runes for sanitize: NUL, bold (2), tab, line feed, carriage return, space,
\* "a", DEL, next line (133), no-break space (160), e acute (233)
SanitizeRunes == {0, 2, 9, 10, 13, 32, 97, 127, 133, 160, 233}

\* a string longer than truncate's default length
LongString == [i \in 1..401 |-> 97]

\* truncate suffixes: none, "~", "..", "..."
Suffixes == {<<>>, <<126>>, <<46, 46>>, <<46, 46, 46>>}

\* a call of FormatMessage
FormatCall ==
  /\ fOp = "none"
  /\ \E topic \in {<<97>>, <<97, 47, 98>>},
        payload \in SeqsTo(PayloadBytes, MaxPayloadLen),
        template \in {EmptyTemplate, PayloadTemplate},
        max \in {0, 6, 8, 20} :
       /\ fArg' = [NoFmtArg EXCEPT !.topic = topic, !.payload = payload,
                                   !.template = template, !.max = max,
                                   !.suffix = TruncateSuffix]
       /\ fRet' = FormatMessage([Topic |-> topic, Payload |-> payload], template,
                                max, TruncateSuffix)
  /\ fOp' = "FormatMessage"
  /\ UNCHANGED notFmt

\* a call of truncate
TruncateCall ==
  /\ fOp = "none"
  /\ \E str \in SeqsTo({97, 233}, MaxTruncLen) \cup {LongString},
        max \in -1..MaxTruncLen, suffix \in Suffixes :
       /\ fArg' = [NoFmtArg EXCEPT !.s = str, !.max = max, !.suffix = suffix]
       /\ fRet' = truncate(str, max, suffix)
  /\ fOp' = "truncate"
  /\ UNCHANGED notFmt

\* a call of sanitize
SanitizeCall ==
  /\ fOp = "none"
  /\ \E str \in SeqsTo(SanitizeRunes, MaxStrLen) :
       /\ fArg' = [NoFmtArg EXCEPT !.s = str]
       /\ fRet' = sanitize(str)
  /\ fOp' = "sanitize"
  /\ UNCHANGED notFmt

\* the call is over: the caller goes on to its next call
FmtReturn ==
  /\ fOp # "none"
  /\ fOp' = "none"
  /\ fArg' = NoFmtArg
  /\ fRet' = <<>>
  /\ UNCHANGED notFmt

InitFormat == Init /\ blockOnFull = FALSE

NextFormat == FormatCall \/ TruncateCall \/ SanitizeCall \/ FmtReturn

SpecFormat == InitFormat /\ [][NextFormat]_vars

(***************************************************************************)
(* SpecAdmin: the admin handler on one PRIVMSG event at a time.            *)
(***************************************************************************)
\* strings.ToLower of one ASCII rune
lowerRune(r) == IF r >= 65 /\ r <= 90 THEN r + 32 ELSE r

\* strings.ToLower on ASCII text
ToLower(str) == [i \in 1..Len(str) |-> lowerRune(str[i])]

\* strings.EqualFold on ASCII text
EqualFold(a, b) == ToLower(a) = ToLower(b)

RECURSIVE pathMatch(_, _)
\* path.Match for a pattern of literal runes and "*", which matches any
\* run of runes other than "/"
pathMatch(pattern, name) ==
  IF pattern = <<>> THEN name = <<>>
  ELSE IF Head(pattern) = 42
       THEN \/ pathMatch(Tail(pattern), name)
            \/ /\ name # <<>>
               /\ Head(name) # 47
               /\ pathMatch(pattern, Tail(name))
  ELSE /\ name # <<>>
       /\ Head(name) = Head(pattern)
       /\ pathMatch(Tail(pattern), Tail(name))

\* cfg.CommandPrefix: "!"
CommandPrefix == <<33>>

\* cfg.AllowList: nick "Al" from any host, nick "bob" with hostmask "*@t"
AllowList ==
  << [Nick |-> <<65, 108>>, Hostmask |-> <<>>],
     [Nick |-> <<98, 111, 98>>, Hostmask |-> <<42, 64, 116>>] >>

\* cfg.Channels: "#ops"
AdminChannels == << <<35, 111, 112, 115>> >>

\* client.GetNick(): "Bot"
BotNick == <<66, 111, 116>>

\* acceptsSource
acceptsSource(target, isPM, acceptPM) ==
  IF isPM THEN acceptPM
  ELSE \E i \in 1..Len(AdminChannels) : EqualFold(AdminChannels[i], target)

\* isAuthorized that looks at the nick only
isAuthorizedNickOnly(nick, hostmask) ==
  \E i \in 1..Len(AllowList) : EqualFold(AllowList[i].Nick, nick)

\* isAuthorized
isAuthorized(nick, hostmask) ==
  \E i \in 1..Len(AllowList) :
     /\ EqualFold(AllowList[i].Nick, nick)
     /\ \/ AllowList[i].Hostmask = <<>>
        \/ pathMatch(AllowList[i].Hostmask, hostmask)

\* strings.HasPrefix / strings.TrimPrefix
HasPrefixStr(str, prefix) ==
  Len(str) >= Len(prefix) /\ SubSeq(str, 1, Len(prefix)) = prefix

TrimPrefix(str, prefix) ==
  IF HasPrefixStr(str, prefix) THEN SubSeq(str, Len(prefix) + 1, Len(str)) ELSE str

\* the commands
CmdHelp == <<104, 101, 108, 112>>
CmdStatus == <<115, 116, 97, 116, 117, 115>>
CmdHealth == <<104, 101, 97, 108, 116, 104>>
CmdNick == <<110, 105, 99, 107>>
CmdReconnect == <<114, 101, 99, 111, 110, 110, 101, 99, 116>>
CmdShutdown == <<115, 104, 117, 116, 100, 111, 119, 110>>
TargetMqtt == <<109, 113, 116, 116>>
TargetIrc == <<105, 114, 99>>

\* cmdNick, cmdReconnect, cmdStatus, cmdShutdown, cmdHelp on the words of a
\* command: the bridge operations called, the replies sent, and whether the
\* goroutine of cmdShutdown is started
command(parts) ==
  LET cmd == ToLower(parts[1])
      args == Tail(parts)
  IN  IF cmd = CmdHelp THEN [ops |-> <<>>, replies |-> 7, go |-> FALSE]
      ELSE IF cmd = CmdStatus \/ cmd = CmdHealth
      THEN [ops |-> <<"HealthStatus">>, replies |-> 1, go |-> FALSE]
      ELSE IF cmd = CmdNick
      THEN (IF Len(args) = 0 \/ Len(args[1]) > 30
            THEN [ops |-> <<>>, replies |-> 1, go |-> FALSE]
            ELSE [ops |-> <<"NickChange">>, replies |-> 1, go |-> FALSE])
      ELSE IF cmd = CmdReconnect
      THEN (IF Len(args) = 0 THEN [ops |-> <<>>, replies |-> 1, go |-> FALSE]
            ELSE IF ToLower(args[1]) = TargetMqtt
            THEN [ops |-> <<"ReconnectMQTT">>, replies |-> 1, go |-> FALSE]
            ELSE IF ToLower(args[1]) = TargetIrc
            THEN [ops |-> <<"ReconnectIRC">>, replies |-> 1, go |-> FALSE]
            ELSE [ops |-> <<>>, replies |-> 1, go |-> FALSE])
      ELSE IF cmd = CmdShutdown THEN [ops |-> <<>>, replies |-> 1, go |-> TRUE]
      ELSE [ops |-> <<>>, replies |-> 1, go |-> FALSE]

\* Handler.dispatch on the words after the prefix
adminDispatch(parts) ==
  IF Len(parts) = 0 THEN [ops |-> <<>>, replies |-> 0, go |-> FALSE]
  ELSE command(parts)

\* onPRIVMSG on event e, given what dispatch does with its text
onPRIVMSG(e, dispatched) ==
  IF ~e.params \/ ~e.source THEN [ops |-> <<>>, replies |-> 0, go |-> FALSE]
  ELSE IF ~acceptsSource(e.target, EqualFold(e.target, BotNick), e.acceptPM)
  THEN [ops |-> <<>>, replies |-> 0, go |-> FALSE]
  ELSE IF ~HasPrefixStr(e.text, CommandPrefix)
  THEN [ops |-> <<>>, replies |-> 0, go |-> FALSE]
  ELSE IF ~isAuthorized(e.nick, e.host)
  THEN [ops |-> <<>>, replies |-> 0, go |-> FALSE]
  ELSE dispatched

\* the targets of the events: "#ops", "#OPS", "#other", "Bot", "bot"
EventTargets == {<<35, 111, 112, 115>>, <<35, 79, 80, 83>>, <<35, 111, 116, 104, 101, 114>>, <<66, 111, 116>>, <<98, 111, 116>>}

\* the texts: "!status", "!NICK x", "!reconnect mqtt", "!reconnect IRC",
\* "!shutdown", "!help", "!bogus", "!", "status"
EventTexts ==
  {<<33, 115, 116, 97, 116, 117, 115>>, <<33, 78, 73, 67, 75, 32, 120>>, <<33, 114, 101, 99, 111, 110, 110, 101, 99, 116, 32, 109, 113, 116, 116>>,
   <<33, 114, 101, 99, 111, 110, 110, 101, 99, 116, 32, 73, 82, 67>>, <<33, 115, 104, 117, 116, 100, 111, 119, 110>>, <<33, 104, 101, 108, 112>>,
   <<33, 98, 111, 103, 117, 115>>, <<33>>, <<115, 116, 97, 116, 117, 115>>}

\* the sender nicks: "al", "AL", "bob", "eve"
EventNicks == {<<97, 108>>, <<65, 76>>, <<98, 111, 98>>, <<101, 118, 101>>}

\* the sender ident@host: "u@t", "u@x"
EventHosts == {<<117, 64, 116>>, <<117, 64, 120>>}

\* the events girc hands to the handler; AcceptPM is either way
Events ==
  [params : BOOLEAN, source : BOOLEAN, target : EventTargets, text : EventTexts,
   nick : EventNicks, host : EventHosts, acceptPM : BOOLEAN, called : {TRUE}]

\* girc calls onPRIVMSG with an event
Privmsg ==
  /\ ~aEvent.called
  /\ ~aPending
  /\ \E e \in Events :
       /\ aEvent' = e
       /\ aOps' = onPRIVMSG(e, adminDispatch(Fields(TrimPrefix(e.text, CommandPrefix),
                                                    <<>>, <<>>))).ops
       /\ aReplies' = onPRIVMSG(e, adminDispatch(Fields(TrimPrefix(e.text, CommandPrefix),
                                                        <<>>, <<>>))).replies
       /\ aPending' = onPRIVMSG(e, adminDispatch(Fields(TrimPrefix(e.text, CommandPrefix),
                                                        <<>>, <<>>))).go
  /\ UNCHANGED notAdm

\* the goroutine of cmdShutdown: bridge.SendMessage("Goodbye."), shutdownFn()
AdminGoodbye ==
  /\ aPending
  /\ aPending' = FALSE
  /\ aOps' = aOps \o <<"SendMessage", "shutdown">>
  /\ UNCHANGED << aEvent, aReplies >>
  /\ UNCHANGED notAdm

\* the handler has returned and its goroutine is over: the next event
AdminReturn ==
  /\ aEvent.called
  /\ ~aPending
  /\ aEvent' = NoEvent
  /\ aOps' = <<>>
  /\ aReplies' = 0
  /\ UNCHANGED aPending
  /\ UNCHANGED notAdm

InitAdmin == Init /\ blockOnFull = FALSE

NextAdmin == Privmsg \/ AdminGoodbye \/ AdminReturn

SpecAdmin == InitAdmin /\ [][NextAdmin]_vars

(***************************************************************************)
(* Helpers for the properties                                              *)
(***************************************************************************)
\* the ids of the handled messages that came out of the channel's buffer
RealHandled == SelectSeq(handled, LAMBDA id : id # 0)

QueuedIds == [i \in 1..Len(msgQueue) |-> msgQueue[i].id]

\* the current handleMessage call is past route r
RouteFinished(r) ==
  \/ cur.done
  \/ \E k \in 1..Len(cur.mappings) : k < cur.ri /\ cur.mappings[k] = r

\* the sends of the current call for route r
SendsOf(r) == SelectSeq(cur.sends, LAMBDA e : e.route = r)

\* every destination of route r was sent exactly the text t, once
SentToAll(r, t) ==
  /\ Len(SendsOf(r)) = Len(Mappings[r].IRCChannels)
  /\ \A i \in 1..Len(SendsOf(r)) :
        /\ SendsOf(r)[i].channel = Mappings[r].IRCChannels[i]
        /\ SendsOf(r)[i].text = t

ProcEntries == {cur.procs[i] : i \in 1..Len(cur.procs)}

FormatterRan(r) == \E i \in 1..Len(cur.fmts) : cur.fmts[i] = r

FormatterText(r) ==
  FormatMessage(cur.msg, Mappings[r].MessageFormat, MaxMessageLength, TruncateSuffix)

(***************************************************************************)
(* C1. Drain on shutdown: once the context is cancelled and Shutdown has   *)
(* closed the queue, the worker leaves its loop only with the queue empty, *)
(* unless the shutdown deadline has elapsed.                               *)
(***************************************************************************)
C1_DrainBeforeExit ==
  [][ (closed /\ cancelled /\ ~deadlineElapsed /\ pc = "select" /\ pc' = "exited")
        => msgQueue = <<>> ]_vars

(***************************************************************************)
(* C2. Shutdown deadline: when Shutdown has returned because its deadline  *)
(* elapsed, the worker takes no further message and makes no further send. *)
(***************************************************************************)
C2_NoWorkAfterTimeout ==
  [][ (shutdown = "returned" /\ shutdownVia = "timeout")
        => (handled' = handled /\ cur'.sends = cur.sends) ]_vars

(***************************************************************************)
(* C3. Under the drop policy the MQTT callback never waits, whatever the   *)
(* state of the queue; on a full queue the message is not enqueued and the *)
(* queue keeps its contents, and on a full open queue it is discarded.     *)
(***************************************************************************)
C3_DropNeverBlocks ==
  [][ (~blockOnFull /\ produced' = produced + 1)
        => /\ lastOutcome' \in {"enqueued", "dropped", "panic"}
           /\ Len(msgQueue) = MaxSize
                => /\ msgQueue' = msgQueue
                   /\ accepted' = accepted
                   /\ (~closed => lastOutcome' = "dropped") ]_vars

\* a message arrived at a full queue under the drop policy and was discarded
C3_Witness ==
  /\ ~blockOnFull
  /\ lastOutcome = "dropped"
  /\ Len(msgQueue) = MaxSize
  /\ produced > Len(accepted)

(***************************************************************************)
(* C4. With block_on_full = true a message that arrives at a full queue    *)
(* is not discarded.                                                       *)
(***************************************************************************)
C4_BlockOnFullKeepsMessage ==
  [][ (blockOnFull /\ ~closed /\ Len(msgQueue) = MaxSize /\ produced' = produced + 1)
        => lastOutcome' # "dropped" ]_vars

C6_NeverCrashes == ~crashed

(***************************************************************************)
(* C7 as claimed. Whenever the processor of a matched route returned an    *)
(* error, the formatter ran with the route's template and its text went to *)
(* every destination of the route.                                         *)
(***************************************************************************)
C7_ErrorIsPassThrough ==
  \A e \in ProcEntries :
     (e.result.err /\ RouteFinished(e.route))
        => /\ FormatterRan(e.route)
           /\ SentToAll(e.route, FormatterText(e.route))

(***************************************************************************)
(* C7 amended. Whenever the processor of a matched route returned an error *)
(* with a result that neither has Drop set nor carries Formatted text, the *)
(* formatter ran with the route's template and its text went to every      *)
(* destination of the route.                                               *)
(***************************************************************************)
C7_ErrorAloneIsPassThrough ==
  \A e \in ProcEntries :
     (e.result.err /\ ~e.result.Drop /\ e.result.Formatted = <<>>
        /\ RouteFinished(e.route))
        => /\ FormatterRan(e.route)
           /\ SentToAll(e.route, FormatterText(e.route))

\* a processor returned an error with an empty result on a route with two
\* destinations, and the route is finished
C7_Witness ==
  \E e \in ProcEntries :
     /\ e.result.err /\ ~e.result.Drop /\ e.result.Formatted = <<>>
     /\ RouteFinished(e.route)
     /\ Len(Mappings[e.route].IRCChannels) = 2
     /\ Mappings[e.route].Processor # ""

(***************************************************************************)
(* C8. Drop is per route: a route whose processor result has Drop set gets *)
(* no send for the message, and once the call is over every other matched  *)
(* route has had a send to each of its destinations.                       *)
(***************************************************************************)
C8_DropIsPerRoute ==
  /\ \A e \in ProcEntries : e.result.Drop => Len(SendsOf(e.route)) = 0
  /\ cur.done =>
       \A k \in 1..Len(cur.mappings) :
          LET r == cur.mappings[k]
          IN  (~\E e \in ProcEntries : e.route = r /\ e.result.Drop)
                 => \A i \in 1..Len(Mappings[r].IRCChannels) :
                       \E j \in 1..Len(cur.sends) :
                          /\ cur.sends[j].route = r
                          /\ cur.sends[j].channel = Mappings[r].IRCChannels[i]

\* a finished call in which the first route was dropped and a later one sent
C8_Witness ==
  /\ cur.done
  /\ Len(cur.mappings) >= 2
  /\ \E e \in ProcEntries : e.route = cur.mappings[1] /\ e.result.Drop
  /\ Len(cur.sends) >= 1

(***************************************************************************)
(* C9. Pre-formatted path: for a processor result without Drop and with    *)
(* Formatted text, the formatter does not run for the route and every      *)
(* destination of the route is sent SanitizeAndTruncate(Formatted,         *)
(* max_message_length, truncate_suffix).                                   *)
(***************************************************************************)
C9_PreFormattedPath ==
  \A e \in ProcEntries :
     (~e.result.Drop /\ e.result.Formatted # <<>>)
        => /\ ~FormatterRan(e.route)
           /\ \A i \in 1..Len(SendsOf(e.route)) :
                 SendsOf(e.route)[i].text =
                    SanitizeAndTruncate(e.result.Formatted, MaxMessageLength, TruncateSuffix)
           /\ RouteFinished(e.route) =>
                 SentToAll(e.route,
                    SanitizeAndTruncate(e.result.Formatted, MaxMessageLength, TruncateSuffix))

\* pre-formatted text that sanitization changes went to both destinations
C9_Witness ==
  \E e \in ProcEntries :
     /\ ~e.result.Drop /\ e.result.Formatted # <<>>
     /\ RouteFinished(e.route)
     /\ Len(SendsOf(e.route)) = 2
     /\ SendsOf(e.route)[1].text # e.result.Formatted

(***************************************************************************)
(* C10. A matched route that has no processor configured never has a       *)
(* processor invoked for it.                                               *)
(***************************************************************************)
C10_NoProcessorNoCall ==
  \A e \in ProcEntries : Mappings[e.route].Processor # ""

(***************************************************************************)
(* C11. Send-failure isolation: a failed send ends neither the route, nor  *)
(* the call, nor the worker. Every finished route that was not dropped has *)
(* had a send attempted for each of its destinations, failed sends         *)
(* included, and the step after a failed send is the next send, the next   *)
(* route, or the worker's select for the next message.                     *)
(***************************************************************************)
C11_Isolated ==
  \A k \in 1..Len(cur.mappings) :
     LET r == cur.mappings[k]
     IN  (RouteFinished(r) /\ ~\E e \in ProcEntries : e.route = r /\ e.result.Drop)
            => /\ Len(SendsOf(r)) = Len(Mappings[r].IRCChannels)
               /\ \A i \in 1..Len(SendsOf(r)) :
                     SendsOf(r)[i].channel = Mappings[r].IRCChannels[i]

C11_SendFailureIsolation ==
  [][ /\ C11_Isolated'
      /\ (pc = "send" /\ cancelled /\ cur' # cur)
           => /\ Len(cur'.sends) = Len(cur.sends) + 1
              /\ ~cur'.sends[Len(cur'.sends)].ok
              /\ pc' \in {"send", "route", "select"}
              /\ pc' = "select" <=> cur'.done ]_vars

\* a finished call whose first send failed, with sends attempted for the
\* second destination and for a later route, and the next message waiting
C11_Witness ==
  /\ cur.done
  /\ pc = "select"
  /\ Len(cur.sends) >= 3
  /\ ~cur.sends[1].ok
  /\ cur.sends[2].route = cur.sends[1].route
  /\ cur.sends[Len(cur.sends)].route # cur.sends[1].route
  /\ msgQueue # <<>>

(***************************************************************************)
(* C12. A message whose topic matches no route is discarded without side   *)
(* effects: the handleMessage call invokes no processor and makes no send, *)
(* and the dedup cache and the registry of every processor are unchanged.  *)
(***************************************************************************)
C12_NoRouteNoEffect ==
  [][ (/\ mHandled' = mHandled + 1
       /\ \A i \in 1..Len(Mappings) :
             ~matchTopic(mLast'.msg.Topic, Mappings[i].MQTTTopic))
        => /\ mLast'.procs = <<>>
           /\ mLast'.sends = <<>>
           /\ mProc' = mProc ]_vars

\* a nodeinfo message on the unmatched topic "q" was handled after an
\* earlier message had filled the cache; the registry is still empty
C12_Witness ==
  /\ mHandled >= 2
  /\ mLast.msg.Topic = <<113>>
  /\ mLast.msg.Payload = PayloadNodeinfo
  /\ mLast.procs = <<>>
  /\ \E i \in ProcInstances : mProc[i].cache # <<>> /\ mProc[i].nodes = <<>>

(***************************************************************************)
(* C13. Rate-limited send is cancellable: a SendMessage call that is       *)
(* waiting for a token when the context is cancelled returns, it returns   *)
(* the cancellation error, and it does not send its message.               *)
(***************************************************************************)
C13_WaitIsCancellable ==
  /\ [][ (sWaitCancelled /\ sPc # "idle" /\ sPc' = "idle")
           => (sLast' = "cancelled" /\ sSent' = sSent) ]_vars
  /\ [][ (sPc = "waiting" /\ sCancelled') => sWaitCancelled' ]_vars
  /\ (sWaitCancelled ~> (sPc = "idle" /\ sLast = "cancelled"))

\* a call that found the bucket empty and was cancelled while it waited has
\* returned the error; the earlier call had been sent
C13_Witness ==
  /\ sWaitCancelled
  /\ sPc = "idle"
  /\ sLast = "cancelled"
  /\ sCalls = 2
  /\ sSent = 1

(***************************************************************************)
(* C14. Dedup window: a call of seen(id) returns false when no earlier     *)
(* call for the id returned false; after a call that returned false at     *)
(* time t, every call for the id made before t + window returns true, and  *)
(* a call made after t + window returns false.                             *)
(***************************************************************************)
C14_DedupWindow ==
  [][ \A w \in CacheWorkers :
        (cRet[w] = "none" /\ cRet'[w] # "none")
          => LET id == cId[w]
                 t == cTime'[w]
             IN  /\ id \notin DOMAIN cFirst => cRet'[w] = "false"
                 /\ (id \in DOMAIN cFirst /\ t < cFirst[id] + DedupWindow)
                       => cRet'[w] = "true"
                 /\ (id \in DOMAIN cFirst /\ t > cFirst[id] + DedupWindow)
                       => cRet'[w] = "false" ]_vars

\* a call returned true before the expiry the first call recorded, and a
\* later call for the same id, made after that expiry, returned false
C14_Witness ==
  \E w, v \in CacheWorkers :
     /\ cId[w] = cId[v]
     /\ cPc[w] = "idle" /\ cPc[v] = "idle"
     /\ cRet[w] = "true"
     /\ cRet[v] = "false"
     /\ cTime[v] > cTime[w] + 1
     /\ cFirst[cId[v]] = cTime[v]

(***************************************************************************)
(* C15. Dedup under concurrency: the eviction, test and record of one call *)
(* of seen are not interleaved with those of another call, and of the      *)
(* calls that run concurrently with the same id at most one returns false  *)
(* (the one that records the id; C14 makes the first call return false).   *)
(***************************************************************************)
C15_SeenIsAtomic ==
  /\ \A w, v \in CacheWorkers :
        (w # v /\ cPc[w] \in {"locked", "record", "unlock"})
           => cPc[v] \notin {"locked", "record", "unlock"}
  /\ \A w, v \in CacheWorkers :
        (/\ w # v
         /\ cId[w] = cId[v]
         /\ cRet[w] = "false" /\ cRet[v] = "false")
           => (cTime[w] >= cTime[v] + DedupWindow \/ cTime[v] >= cTime[w] + DedupWindow)

\* two calls with the same unseen id ran concurrently and both returned:
\* one false, the other true
C15_Witness ==
  \E w, v \in CacheWorkers :
     /\ w # v
     /\ cId[w] = cId[v]
     /\ cOverlap[w] /\ cOverlap[v]
     /\ cPc[w] = "idle" /\ cPc[v] = "idle"
     /\ cRet[w] = "false"
     /\ cRet[v] = "true"
     /\ cTime[w] = 0 /\ cTime[v] = 0

(***************************************************************************)
(* C16. Processor deduplication: a Process call for a JSON message whose   *)
(* identifier was not carried by any earlier message of that processor is  *)
(* not dropped; a call for a message whose identifier was carried by an    *)
(* earlier, not dropped message less than the dedup window ago is dropped; *)
(* a message without the identifier field, or with a null identifier, is   *)
(* never dropped.  Identifiers are compared as the processor's cache keys. *)
(***************************************************************************)
C16_ProcessorDedup ==
  [][ mHandled' = mHandled + 1
        => LET u == jsonUnmarshal(mLast'.msg.Payload)
               carriesId == u.ok /\ "id" \in DOMAIN u.raw /\ u.raw["id"].k # "null"
               key == SprintfV(u.raw["id"])
               procs == mLast'.procs
           IN  \A j \in 1..Len(procs) :
                  LET inst == procs[j].instance
                      passedInCall == \E i \in 1..(j - 1) :
                                         procs[i].instance = inst /\ ~procs[i].result.Drop
                      passedBefore == <<inst, key>> \in DOMAIN mPassed
                  IN  /\ ~carriesId => ~procs[j].result.Drop
                      /\ (carriesId /\ ~passedInCall /\ ~passedBefore)
                            => ~procs[j].result.Drop
                      /\ (carriesId /\ DedupWindow > 0 /\ passedInCall)
                            => procs[j].result.Drop
                      /\ (carriesId /\ passedBefore
                            /\ mNow < mPassed[<<inst, key>>] + DedupWindow)
                            => procs[j].result.Drop ]_vars

\* a message with identifier 7 was dropped by the processor that had passed
\* an earlier message with identifier 7 one tick before
C16_Witness ==
  /\ mHandled >= 2
  /\ mLast.msg.Payload = PayloadId7
  /\ Len(mLast.procs) >= 1
  /\ mLast.procs[1].result.Drop
  /\ <<mLast.procs[1].instance, <<55>>>> \in DOMAIN mPassed
  /\ mLast.now = mPassed[<<mLast.procs[1].instance, <<55>>>>] + 1

(***************************************************************************)
(* Helpers for the registry properties                                     *)
(***************************************************************************)
RegAllIdle == \A w \in RegWorkers : rW[w].pc = "idle"

\* the short and long names of the records of a registry
Names(nodes) ==
  [id \in DOMAIN nodes |-> <<nodes[id].ShortName, nodes[id].LongName>>]

(***************************************************************************)
(* C17. Registry update survives persistence failure: the map always holds *)
(* for every id the record of the latest update of that id, whatever       *)
(* happened to the writes, and a call whose write or rename failed has     *)
(* returned an error with its record still readable through get.           *)
(***************************************************************************)
C17_UpdateSurvivesFailure ==
  /\ rNodes = rHist.lastRec
  /\ \A w \in RegWorkers :
        rW[w].err = "error"
           => /\ rHist.failed
              /\ get(rNodes, rW[w].id).ok
              /\ rHist.lastRec[rW[w].id] = rW[w].rec
                   => get(rNodes, rW[w].id).rec = rW[w].rec

\* the only update so far failed to write its file: the call returned an
\* error, no file exists at the path, and get returns the record
C17_Witness ==
  \E w \in RegWorkers :
     /\ rW[w].pc = "idle"
     /\ rW[w].err = "error"
     /\ rHist.updates = 1
     /\ rDir["db"] = 0
     /\ get(rNodes, rW[w].id).ok
     /\ get(rNodes, rW[w].id).rec = rW[w].rec

(***************************************************************************)
(* C18. Registry persistence round-trip: when the updates so far ran one   *)
(* after the other and none failed, a second registry loaded from the path *)
(* has exactly the updated ids, each with the short and long name of its   *)
(* last update; loading when no file exists succeeds with no records.      *)
(***************************************************************************)
C18_RoundTrip ==
  [][ rLoaded' # rLoaded
        => /\ rDir["db"] = 0 => rLoaded' = [state |-> "ok", nodes |-> <<>>]
           /\ (RegAllIdle /\ ~rHist.overlap /\ ~rHist.failed /\ rHist.updates >= 1)
                 => /\ rLoaded'.state = "ok"
                    /\ Names(rLoaded'.nodes) = Names(rHist.lastRec) ]_vars

\* after three successful updates in sequence, one of them overwriting an
\* id, the loaded registry has both ids, one without a short name
C18_Witness ==
  /\ RegAllIdle /\ ~rHist.overlap /\ ~rHist.failed
  /\ rHist.updates >= 3
  /\ rLoaded.state = "ok"
  /\ DOMAIN rLoaded.nodes = RegIds
  /\ Names(rLoaded.nodes) = Names(rNodes)
  /\ \E id \in RegIds : rLoaded.nodes[id].ShortName = <<>>

(***************************************************************************)
(* C19. Registry writers are serialized as update+persist: once all update *)
(* calls have returned and none failed, the file at the path holds exactly *)
(* the in-memory registry.                                                 *)
(***************************************************************************)
C19_FileHoldsRegistry ==
  (RegAllIdle /\ ~rHist.failed /\ rHist.updates >= 1)
     => /\ rDir["db"] # 0
        /\ rIno[rDir["db"]].complete
        /\ Unmarshal(rIno[rDir["db"]].json) = rNodes

(***************************************************************************)
(* C20. The durable registry file is never partial: the file at the path   *)
(* is absent or holds the complete serialization of a registry state that  *)
(* existed in memory.                                                      *)
(***************************************************************************)
C20_FileNeverPartial ==
  rDir["db"] # 0
     => /\ rIno[rDir["db"]].complete
        /\ \E st \in rHist.past : rIno[rDir["db"]].json = Marshal(st)

(***************************************************************************)
(* C21: identity resolution priority.  The display name the processor      *)
(* injects for the sender of a message it did not drop is the short name   *)
(* the registry holds for the sender id when that name is not empty,       *)
(* otherwise the sender token of the message when it has a non-empty one,  *)
(* otherwise the raw sender id.  The name is read off the rendered text:   *)
(* the default format is the name followed by ":", the nodeinfo format     *)
(* starts with the name followed by "=".                                   *)
(***************************************************************************)
\* the sender id of a decoded message, as text
SenderId(raw) ==
  IF "from" \in DOMAIN raw
  THEN (IF raw["from"].k = "num" THEN Digits(raw["from"].n) ELSE raw["from"].s)
  ELSE <<>>

\* the sender token carried on a decoded message, "" when there is none
SenderToken(raw) ==
  IF "sender" \in DOMAIN raw /\ raw["sender"].k = "str" THEN raw["sender"].s ELSE <<>>

\* the name the priority rule gives
ResolvedName(nodes, raw) ==
  IF SenderId(raw) \in DOMAIN nodes /\ nodes[SenderId(raw)].ShortName # <<>>
  THEN nodes[SenderId(raw)].ShortName
  ELSE IF SenderToken(raw) # <<>> THEN SenderToken(raw)
  ELSE SenderId(raw)

C21_IdentityPriority ==
  LET u == jsonUnmarshal(mLast.msg.Payload)
  IN  u.ok =>
        \A j \in 1..Len(mLast.procs) :
           LET pr == mLast.procs[j]
               name == ResolvedName(mProc[pr.instance].nodes, u.raw)
               isNodeinfo == "type" \in DOMAIN u.raw /\ u.raw["type"].s = NodeinfoType
           IN  ~pr.result.Drop =>
                 IF isNodeinfo
                 THEN /\ Len(pr.result.Formatted) > Len(name)
                      /\ SubSeq(pr.result.Formatted, 1, Len(name) + 1) = name \o <<61>>
                 ELSE pr.result.Formatted = name \o <<58>>

\* the message carries the sender token "!a" and the registry holds the
\* short name "A" for its sender id 1: the processor rendered "A:"
C21_Witness ==
  /\ mLast.msg.Payload = PayloadSender
  /\ Len(mLast.procs) >= 1
  /\ <<49>> \in DOMAIN mProc[mLast.procs[1].instance].nodes
  /\ mProc[mLast.procs[1].instance].nodes[<<49>>].ShortName = <<65>>
  /\ mLast.procs[1].result.Formatted = <<65, 58>>

(***************************************************************************)
(* C22: for a pattern that contains neither "+" nor "#", matchTopic is     *)
(* true exactly when the topic equals the pattern.                         *)
(***************************************************************************)
C22_ExactWithoutWildcards ==
  (qOp = "matchTopic" /\ ~Contains(qPattern, 43) /\ ~Contains(qPattern, 35))
     => (qRet = "true" <=> qTopic = qPattern)

\* the two-level pattern "a/a" without wildcards matched the equal topic
C22_Witness ==
  /\ qOp = "matchTopic"
  /\ qPattern = <<97, 47, 97>>
  /\ qTopic = qPattern
  /\ qRet = "true"

(***************************************************************************)
(* C23: single-level wildcard.  A pattern whose segments are literals or   *)
(* "+" (none is "#") matches a topic exactly when both have the same       *)
(* number of segments and every segment of the pattern is "+" or equal to  *)
(* the topic's segment at the same position.                               *)
(***************************************************************************)
\* the segments of a topic or pattern
Segs(s) == Split(s, <<>>, <<>>)

\* the first n segments of the topic match the pattern segments x
LeadingMatch(tsegs, x) ==
  /\ Len(tsegs) >= Len(x)
  /\ \A i \in 1..Len(x) : x[i] = <<43>> \/ x[i] = tsegs[i]

C23_SingleLevel ==
  (qOp = "matchTopic" /\ \A i \in 1..Len(Segs(qPattern)) : Segs(qPattern)[i] # <<35>>)
     => (qRet = "true" <=> /\ Len(Segs(qTopic)) = Len(Segs(qPattern))
                           /\ LeadingMatch(Segs(qTopic), Segs(qPattern)))

\* the pattern "a/+/a" did not match the four-level topic "a/b/b/a"
C23_Witness ==
  /\ qOp = "matchTopic"
  /\ qPattern = <<97, 47, 43, 47, 97>>
  /\ qTopic = <<97, 47, 98, 47, 98, 47, 97>>
  /\ qRet = "false"

(***************************************************************************)
(* C24: multi-level wildcard.  A pattern X/# whose segments X are literals *)
(* or "+" matches a topic exactly when the leading segments of the topic   *)
(* match X, whatever follows, nothing included; the pattern "#" matches    *)
(* every topic.                                                            *)
(***************************************************************************)
C24_MultiLevel ==
  LET psegs == Segs(qPattern)
      x == SubSeq(psegs, 1, Len(psegs) - 1)
  IN  (/\ qOp = "matchTopic"
       /\ psegs[Len(psegs)] = <<35>>
       /\ \A i \in 1..Len(x) : x[i] # <<35>>)
         => (qRet = "true" <=> LeadingMatch(Segs(qTopic), x))

\* the pattern "a/#" matched the topic "a" alone
C24_Witness ==
  /\ qOp = "matchTopic"
  /\ qPattern = <<97, 47, 35>>
  /\ qTopic = <<97>>
  /\ qRet = "true"

(***************************************************************************)
(* C25: IsValidPattern is false exactly for a pattern that is empty, has   *)
(* an empty segment, contains "..", has "#" in a segment that is not the   *)
(* last or has "#" more than once, or has a segment in which "+" or "#"    *)
(* stands with further characters; it is true for every other pattern.     *)
(***************************************************************************)
Malformed(p) ==
  \/ p = <<>>
  \/ \E i \in 1..Len(Segs(p)) : Segs(p)[i] = <<>>
  \/ \E i \in 1..(Len(p) - 1) : p[i] = 46 /\ p[i + 1] = 46
  \/ \E i \in 1..(Len(Segs(p)) - 1) : Contains(Segs(p)[i], 35)
  \/ Cardinality({i \in 1..Len(p) : p[i] = 35}) > 1
  \/ \E i \in 1..Len(Segs(p)) :
        /\ Contains(Segs(p)[i], 43) \/ Contains(Segs(p)[i], 35)
        /\ Len(Segs(p)[i]) > 1

C25_ValidPattern ==
  qOp = "IsValidPattern" => (qRet = "false" <=> Malformed(qPattern))

\* IsValidPattern returned false for "a/../a", whose only fault is the ".."
C25_Witness ==
  /\ qOp = "IsValidPattern"
  /\ qPattern = <<97, 47, 46, 46, 47, 97>>
  /\ qRet = "false"

(***************************************************************************)
(* C26: a configuration with a route whose pattern is malformed is         *)
(* rejected at startup: Validate or New returns an error and the program   *)
(* does not run with that route.                                           *)
(***************************************************************************)
C26_MalformedRejected ==
  (/\ qOp = "startup"
   /\ \E i \in 1..Len(qCfg) : ~IsValidPattern(qCfg[i].MQTTTopic))
     => qRet # "running"

(***************************************************************************)
(* C27 as claimed.  Default formatting: for every message whose payload is *)
(* UTF-8 text, FormatMessage with an empty template returns exactly        *)
(* "[" + topic + "] " + payload whenever that string is no longer than     *)
(* maxLength.                                                              *)
(***************************************************************************)
\* "[" + topic + "] " + payload
Bracketed(topic, payload) == <<91>> \o topic \o <<93, 32>> \o payload

\* the payload bytes are UTF-8 text (the model's text bytes are ASCII)
IsText(payload) == \A i \in 1..Len(payload) : payload[i] < 128

PlainText(str) ==
  /\ Len(str) > 0
  /\ \A i \in 1..Len(str) : str[i] >= 32 /\ str[i] < 127
  /\ str[1] # 32 /\ str[Len(str)] # 32
  /\ \A i \in 1..(Len(str) - 1) : ~(str[i] = 32 /\ str[i + 1] = 32)

EffectiveMax(max) == IF max <= 0 THEN 400 ELSE max

IsHigh(r) == r >= 128

C29_Sanitized ==
  fOp = "sanitize" =>
    /\ \A i \in 1..Len(fRet) :
          (fRet[i] < 32 \/ fRet[i] = 127) => fRet[i] \in {2, 3, 22, 31}
    /\ \A i \in 1..(Len(fRet) - 1) : ~(fRet[i] = 32 /\ fRet[i + 1] = 32)
    /\ Len(fRet) > 0 => (fRet[1] # 32 /\ fRet[Len(fRet)] # 32)
    /\ SelectSeq(fRet, IsHigh) = SelectSeq(fArg.s, IsHigh)


\* the sender of event e matches allow-list entry a: the nicks are equal up
\* to case and, when the entry has a hostmask, the glob matches ident@host
SenderMatches(e, a) ==
  /\ ToLower(a.Nick) = ToLower(e.nick)
  /\ (a.Hostmask # <<>> => pathMatch(a.Hostmask, e.host))

\* the target of event e is an accepted channel or an accepted private message
TargetAccepted(e) ==
  \/ /\ ToLower(e.target) = ToLower(BotNick)
     /\ e.acceptPM
  \/ /\ ToLower(e.target) # ToLower(BotNick)
     /\ \E i \in 1..Len(AdminChannels) : ToLower(AdminChannels[i]) = ToLower(e.target)

\* C30: a PRIVMSG whose sender matches no allow-list entry, or whose target is
\* neither an accepted channel nor an accepted private message, invokes no
\* bridge operation: no HealthStatus, NickChange, ReconnectIRC, ReconnectMQTT,
\* SendMessage or shutdown, and no shutdown goroutine is started.
C30_AuthorizationGate ==
  (/\ aEvent.called
   /\ \/ \A i \in 1..Len(AllowList) : ~SenderMatches(aEvent, AllowList[i])
      \/ ~TargetAccepted(aEvent))
  => (aOps = <<>> /\ ~aPending)

\* C30 witness: "bob" from a host his hostmask does not match has sent
\* "!shutdown" to the accepted channel, and nothing was invoked
C30_Witness ==
  /\ aEvent.called
  /\ aEvent.params
  /\ aEvent.source
  /\ aEvent.nick = <<98, 111, 98>>
  /\ aEvent.host = <<117, 64, 120>>
  /\ aEvent.target = <<35, 111, 112, 115>>
  /\ aEvent.text = <<33, 115, 104, 117, 116, 100, 111, 119, 110>>
  /\ aOps = <<>>
  /\ ~aPending

(***************************************************************************)
(* Helpers for C31                                                         *)
(***************************************************************************)
\* states of a meshtastic processor: no cache entry or one for identifier 7,
\* an empty registry or a record for node 1
MeshProcStates ==
  [cache : {<<>>} \cup {(<<55>> :> t) : t \in 0..(MaxTime + DedupWindow)},
   nodes : {<<>>,
            (<<49>> :> [ShortName |-> <<83>>, LongName |-> <<76>>, UpdatedAt |-> 0]),
            (<<49>> :> [ShortName |-> <<>>, LongName |-> <<76>>, UpdatedAt |-> 0])}]

\* no Process call of the meshtastic processor returns Drop with Formatted
BuiltInExclusive ==
  \A p \in MeshProcStates : \A d \in MeshDeliveries \cup Deliveries : \A now \in 0..MaxTime :
     LET res == Process(p, [id |-> 1, Topic |-> d.Topic, Payload |-> d.Payload], now).result
     IN  ~(res.Drop /\ res.Formatted # <<>>)

(***************************************************************************)
(* C31. Drop takes precedence: a route whose processor returned Drop       *)
(* together with non-empty Formatted text is treated as dropped: the       *)
(* formatter does not run for it, no send is made or pending for it; and   *)
(* no result of the built-in meshtastic processor has Drop set together    *)
(* with non-empty Formatted.                                               *)
(***************************************************************************)
C31_DropPrecedence ==
  /\ \A e \in ProcEntries :
        (e.result.Drop /\ e.result.Formatted # <<>>)
           => /\ Len(SendsOf(e.route)) = 0
              /\ ~FormatterRan(e.route)
              /\ ~(pc = "send" /\ cur.mappings[cur.ri] = e.route)
  /\ BuiltInExclusive

\* a finished call whose first route got Drop with Formatted text from its
\* processor and no send, while a later route was sent
C31_Witness ==
  /\ cur.done
  /\ Len(cur.mappings) >= 2
  /\ \E e \in ProcEntries :
        /\ e.route = cur.mappings[1]
        /\ e.result.Drop
        /\ e.result.Formatted = RawFormatted
        /\ Len(SendsOf(e.route)) = 0
  /\ Len(cur.sends) >= 1

(***************************************************************************)
(* C32. Map(topic) returns exactly the configured routes whose pattern     *)
(* matches the topic, each once and in configuration order, and an empty   *)
(* result when none matches.                                               *)
(***************************************************************************)
C32_MapExact ==
  qOp = "Map"
     => /\ \A i \in 1..Len(qCfg) :
              matchTopic(qTopic, qCfg[i].MQTTTopic)
                 <=> Cardinality({j \in 1..Len(qMapped) : qMapped[j] = i}) = 1
        /\ \A j \in 1..Len(qMapped) : qMapped[j] \in 1..Len(qCfg)
        /\ \A j, k \in 1..Len(qMapped) : j < k => qMapped[j] < qMapped[k]
        /\ (\A i \in 1..Len(qCfg) : ~matchTopic(qTopic, qCfg[i].MQTTTopic))
              => qMapped = <<>>

\* Map on a mapper with patterns "a/b" and "a/#" returned both routes for
\* topic "a/b"
C32_Witness ==
  /\ qOp = "Map"
  /\ qTopic = <<97, 47, 98>>
  /\ Len(qCfg) = 2
  /\ qCfg[1].MQTTTopic = <<97, 47, 98>>
  /\ qCfg[2].MQTTTopic = <<97, 47, 35>>
  /\ qMapped = <<1, 2>>

(***************************************************************************)
(* C33. Lazy eviction: when a call of seen returns, the cache holds no     *)
(* entry whose expiry is earlier than the time the call read; and the      *)
(* eviction of a call changes the outcome of the test for no id: an id is  *)
(* found unexpired after the eviction exactly when it was so before, and   *)
(* the call returns true exactly when its id was in the cache, unexpired,  *)
(* before the eviction.                                                    *)
(***************************************************************************)
C33_LazyEviction ==
  /\ [](\A w \in CacheWorkers :
           cPc[w] = "unlock" => \A k \in DOMAIN cEntries : ~(cEntries[k] < cTime[w]))
  /\ [][ \A w \in CacheWorkers :
           (cPc[w] = "locked" /\ cPc'[w] # "locked")
             => /\ \A id \in CacheIds :
                      (id \in DOMAIN cEntries' /\ cNow < cEntries'[id])
                         <=> (id \in DOMAIN cEntries /\ cNow < cEntries[id])
                /\ cPc'[w] = "unlock"
                      <=> (cId[w] \in DOMAIN cEntries /\ cNow < cEntries[cId[w]]) ]_vars

\* a call for id 8 returned after it evicted the expired entry of id 7
C33_Witness ==
  \E w \in CacheWorkers :
     /\ cPc[w] = "idle"
     /\ cRet[w] = "false"
     /\ cId[w] = <<56>>
     /\ <<55>> \in DOMAIN cFirst
     /\ <<55>> \notin DOMAIN cEntries
     /\ cTime[w] > cFirst[<<55>>] + DedupWindow

(***************************************************************************)
(* Helpers for C34                                                         *)
(***************************************************************************)
\* the decoded message is an identity announcement that names its sender
Announces(u) ==
  /\ u.ok
  /\ "type" \in DOMAIN u.raw
  /\ u.raw["type"].k = "str"
  /\ u.raw["type"].s = NodeinfoType
  /\ SenderId(u.raw) # <<>>

\* the text field f of the announcement's payload object, "" when missing
AnnouncedField(u, f) ==
  IF "payload" \in DOMAIN u.raw /\ u.raw["payload"].k = "obj"
     /\ f \in DOMAIN u.raw["payload"].o /\ u.raw["payload"].o[f].k = "str"
  THEN u.raw["payload"].o[f].s
  ELSE <<>>

\* the processor calls the handleMessage call c made on instance inst that
\* were not dropped
PassedCalls(c, inst) ==
  {j \in 1..Len(c.procs) : c.procs[j].instance = inst /\ ~c.procs[j].result.Drop}

(***************************************************************************)
(* C34. Identity records are overwritten and never deleted. No step        *)
(* removes a sender id from a registry. A handled message that is an       *)
(* identity announcement and is not dropped as a duplicate leaves, for its *)
(* sender id, the record it announces (short name, long name, time of the  *)
(* message) and no other change; any other step leaves the registry as it  *)
(* was. The rendering of every message that is not dropped, the            *)
(* announcement included, starts with the short name of the record held    *)
(* for its sender after the call when that short name is not empty.        *)
(***************************************************************************)
C34_RecordsOverwritten ==
  [][ \A inst \in ProcInstances :
        LET u == jsonUnmarshal(mLast'.msg.Payload)
            handledNow == mHandled' = mHandled + 1
            passed == PassedCalls(mLast', inst)
            before == mProc[inst].nodes
            after == mProc'[inst].nodes
            from == SenderId(u.raw)
        IN  /\ DOMAIN before \subseteq DOMAIN after
            /\ (handledNow /\ Announces(u) /\ passed # {})
                  => /\ from \in DOMAIN after
                     /\ after[from] = [ShortName |-> AnnouncedField(u, "shortname"),
                                       LongName |-> AnnouncedField(u, "longname"),
                                       UpdatedAt |-> mNow]
                     /\ \A id \in DOMAIN before \ {from} : after[id] = before[id]
                     /\ DOMAIN after = DOMAIN before \cup {from}
            /\ ~(handledNow /\ Announces(u) /\ passed # {}) => after = before
            /\ (handledNow /\ u.ok /\ from \in DOMAIN after /\ after[from].ShortName # <<>>)
                  => \A j \in passed :
                        LET text == mLast'.procs[j].result.Formatted
                            name == after[from].ShortName
                        IN  /\ Len(text) >= Len(name)
                            /\ SubSeq(text, 1, Len(name)) = name ]_vars

\* the announcement of sender 1 as "B" was handled as a second or later
\* message and not dropped: the registry holds "B" for the sender and the
\* announcement was rendered "B=M"
C34_Witness ==
  /\ mHandled >= 2
  /\ mLast.msg.Payload = PayloadNodeinfoRenamed
  /\ Len(mLast.procs) >= 1
  /\ ~mLast.procs[1].result.Drop
  /\ mLast.procs[1].result.Formatted = <<66, 61, 77>>
  /\ mProc[mLast.procs[1].instance].nodes[<<49>>].ShortName = <<66>>
  /\ mProc[mLast.procs[1].instance].nodes[<<49>>].UpdatedAt >= DedupWindow

(***************************************************************************)
(* Helpers for C35                                                         *)
(***************************************************************************)
\* the payloads of the model that are JSON objects
JsonObjects ==
  {PayloadId7, PayloadIdStr7, PayloadNoId, PayloadNullId, PayloadNodeinfo,
   PayloadSender, PayloadNodeinfoEmpty, PayloadNodeinfoRenamed, PayloadNodeinfoOther}

\* the zero ProcessResult returned with a nil error
PassThrough == [Drop |-> FALSE, Formatted |-> <<>>, err |-> FALSE]

(***************************************************************************)
(* C35. Non-JSON pass-through: for a message whose payload is not a JSON   *)
(* object, every Process call returns Drop false, empty Formatted and no   *)
(* error, and the dedup cache and the registry of every processor are as   *)
(* they were before the message.                                           *)
(***************************************************************************)
C35_NonJsonPassThrough ==
  [][ (mHandled' = mHandled + 1 /\ mLast'.msg.Payload \notin JsonObjects)
        => /\ \A j \in 1..Len(mLast'.procs) : mLast'.procs[j].result = PassThrough
           /\ mProc' = mProc ]_vars

(***************************************************************************)
(* C36. Startup ordering: the step that starts the consumer loop is taken  *)
(* after Run established the inbound connection and establishes the        *)
(* outbound one, and a started loop means Run got past both. When the      *)
(* outbound connection fails after the inbound one was established, the    *)
(* inbound connection is torn down and Run returns an error; after Run     *)
(* returned an error no consumer loop exists or is ever started.           *)
(***************************************************************************)
C36_StartupOrdering ==
  /\ [](pc # "none" => runState \in {"running", "returned"})
  /\ [](runState = "failed" => pc = "none")
  /\ [][ (pc = "none" /\ pc' # "none")
           => (runState = "mqttUp" /\ ~ircConnected /\ ircConnected'
               /\ runState' = "running") ]_vars
  /\ [][ (runState = "mqttUp" /\ ~ircConnected' /\ runState' # "mqttUp")
           => (runState' = "failed" /\ ~mqttConnected' /\ pc' = "none") ]_vars
  /\ [][ runState = "failed" => (runState' = "failed" /\ pc' = "none") ]_vars

\* Run failed at the outbound connection: a message had arrived over the
\* inbound connection and is still queued, the inbound connection is down
\* and there is no consumer loop
C36_Witness ==
  /\ runState = "failed"
  /\ produced >= 1
  /\ msgQueue # <<>>
  /\ ~mqttConnected
  /\ ~ircConnected
  /\ pc = "none"

(***************************************************************************)
(* C37. No phantom messages: every message passed to handleMessage is one  *)
(* that the MQTT callback put into the queue before; the worker never      *)
(* handles the zero Message.                                               *)
(***************************************************************************)
C37_NoPhantomMessages ==
  /\ \A i \in 1..Len(handled) : \E j \in 1..Len(accepted) : accepted[j] = handled[i]
  /\ zeroCount = 0

(***************************************************************************)
(* C38. Per-route processor independence: when a handled message matches   *)
(* two routes that both name the meshtastic processor and its identifier   *)
(* was carried by no earlier message (or it carries none), no processor    *)
(* call made for either route reports it as a duplicate and every          *)
(* destination of both routes is sent the message.                         *)
(***************************************************************************)
C38_RouteIndependence ==
  [][ mHandled' = mHandled + 1
        => LET u == jsonUnmarshal(mLast'.msg.Payload)
               carriesId == u.ok /\ "id" \in DOMAIN u.raw /\ u.raw["id"].k # "null"
               firstSighting ==
                 ~carriesId
                 \/ \A inst \in ProcInstances : <<inst, SprintfV(u.raw["id"])>> \notin DOMAIN mPassed
               matched == {mLast'.mappings[k] : k \in 1..Len(mLast'.mappings)}
           IN  \A r1, r2 \in matched :
                  (/\ r1 # r2
                   /\ Mappings[r1].Processor = "meshtastic"
                   /\ Mappings[r2].Processor = "meshtastic"
                   /\ firstSighting)
                    => \A r \in {r1, r2} :
                          /\ \A j \in 1..Len(mLast'.procs) :
                                mLast'.procs[j].route = r => ~mLast'.procs[j].result.Drop
                          /\ \A i \in 1..Len(Mappings[r].IRCChannels) :
                                \E j \in 1..Len(mLast'.sends) :
                                   /\ mLast'.sends[j].route = r
                                   /\ mLast'.sends[j].channel = Mappings[r].IRCChannels[i] ]_vars

====
